---------------------------- MODULE Spec2Model ----------------------------
(***************************************************************************)
(* REST2v5 clear-sky irradiance model (irradpy, ClearSkyREST2v5).          *)
(*                                                                         *)
(* Three state machines share this module:                                 *)
(*   Spec       clear_sky_REST2V5 called on arrays held by a caller        *)
(*   SpecInit   ClearSkyREST2v5.__init__                                   *)
(*   SpecBatch  ClearSkyREST2v5.REST2v5 (time-grid scan and both branches)  *)
(*                                                                         *)
(* Numbers.  numpy float64 values are modelled as extended fixed-point     *)
(* numbers: a finite value is an integer count of a unit, and NaN, +inf    *)
(* and -inf are kept as such with IEEE-754 arithmetic on them.             *)
(*   irradiance (Eext, Ebn, Edp, Edd, Ebh, dni, dhi, ghi)   0.1 W/m2       *)
(*   zenith_angle                                           0.001 rad      *)
(*   pressure 1 mb, water_vapour 0.01 atm.cm, ozone 0.01 atm.cm,           *)
(*   nitrogen_dioxide 0.0001 atm.cm, AOD550 0.01,                          *)
(*   Angstrom_exponent 0.1, surface_albedo 0.1                             *)
(*   transmittances and other dimensionless factors         0.001          *)
(* Every statement of clear_sky_REST2V5 is element-wise, so the arrays     *)
(* are followed through one element.  The air-mass, transmittance and      *)
(* aerosol formulas (lines 73-216) use cos, log, exp and fractional        *)
(* powers; their values at the inputs of the model are tabulated (the      *)
(* formulas evaluated in float64, rounded to 0.001), keyed by the very     *)
(* values the formulas read.  np.complex (lines 74, 198) is numpy's alias  *)
(* of the builtin complex, present in numpy before 1.24.                   *)
(***************************************************************************)
EXTENDS Integers, Sequences, FiniteSets, TLC

VARIABLES
    args,       \* the caller's arrays passed to clear_sky_REST2V5 (one element)
    raw0,       \* the values the caller put in those arrays before the first call
    ret,        \* [ghi, dni, dhi] returned by the last call
    loc,        \* locals of the last call: beam sum, Ebh, diffuse sum, pre-floor values
    filters,    \* warnings.filters, the interpreter-wide list of warning filters
    calls,      \* calls of clear_sky_REST2V5 made so far
    ctor,       \* __init__: its arguments, the object's attributes, the outcome
    time,       \* REST2v5: self.time, one time grid per site
    pandas_output, \* REST2v5: self.pandas_output
    bpc,        \* REST2v5: position ("scan", "sites", "done")
    i,          \* REST2v5: loop index of the time-grid scan (line 283)
    same_flag,  \* REST2v5: same_flag (line 281)
    index,      \* REST2v5: loop index of the per-site loop (line 324)
    branch,     \* REST2v5: the branch that ran ("none", "homogeneous", "per_site")
    result      \* REST2v5: the returned value

coreVars  == <<args, raw0, ret, loc, filters, calls>>
ctorVars  == <<ctor>>
batchVars == <<time, pandas_output, bpc, i, same_flag, index, branch, result>>
vars == <<args, raw0, ret, loc, filters, calls, ctor,
          time, pandas_output, bpc, i, same_flag, index, branch, result>>

---------------------------------------------------------------------------
(* Bounds of the model *)

\* calls of clear_sky_REST2V5 on the same arrays
MaxCalls == 2
\* sites of one REST2v5 run
MaxSites == 3
\* longest time grid of a site
MaxTimes == 2
\* longest lat / lon array given to __init__
MaxCoords == 2

---------------------------------------------------------------------------
(* float64 values *)

Fin(n) == [k |-> "fin", v |-> n]
NaN    == [k |-> "nan", v |-> 0]
PosInf == [k |-> "inf", v |-> 1]
NegInf == [k |-> "inf", v |-> -1]

IsNaN(x)    == x.k = "nan"
IsInf(x)    == x.k = "inf"
IsFinite(x) == x.k = "fin"

Sign(n) == IF n > 0 THEN 1 ELSE IF n < 0 THEN -1 ELSE 0
Abs(n)  == IF n < 0 THEN -n ELSE n

\* n / d rounded to the nearest integer, d # 0
RoundDiv(n, d) ==
    LET s == Sign(n) * Sign(d)
    IN  s * ((2 * Abs(n) + Abs(d)) \div (2 * Abs(d)))

\* scale of the dimensionless factors: 1000 stands for 1.0
S == 10 * 10 * 10

\* x < 0, as numpy compares (False for NaN)
XNeg(x) == \/ (IsFinite(x) /\ x.v < 0)
           \/ (IsInf(x) /\ x.v < 0)

\* x + y
XAdd(x, y) ==
    IF IsNaN(x) \/ IsNaN(y) THEN NaN
    ELSE IF IsInf(x) /\ IsInf(y) THEN (IF x.v = y.v THEN x ELSE NaN)
    ELSE IF IsInf(x) THEN x
    ELSE IF IsInf(y) THEN y
    ELSE Fin(x.v + y.v)

\* x * (c / den) for a finite factor c / den
XScaleBy(x, c, den) ==
    IF IsNaN(x) THEN NaN
    ELSE IF IsInf(x) THEN (IF c = 0 THEN NaN
                           ELSE IF Sign(c) * x.v > 0 THEN PosInf ELSE NegInf)
    ELSE Fin(RoundDiv(x.v * c, den))

\* x * f for a dimensionless factor f: f.v is its value in 1/S, f.s the sign
\* of the float it stands for (a tiny non-zero factor has f.v = 0, f.s # 0,
\* and turns an infinite x into an infinity, not into NaN)
XMul(x, f) ==
    IF IsNaN(x) THEN NaN
    ELSE IF IsInf(x) THEN (IF f.s = 0 THEN NaN
                           ELSE IF f.s * x.v > 0 THEN PosInf ELSE NegInf)
    ELSE Fin(RoundDiv(x.v * f.v, S))

\* x / d for a dimensionless divisor d (in 1/S)
XDiv(x, d) ==
    IF IsNaN(x) THEN NaN
    ELSE IF d = 0 THEN (IF IsFinite(x) /\ x.v = 0 THEN NaN
                        ELSE IF XNeg(x) THEN NegInf ELSE PosInf)
    ELSE IF IsInf(x) THEN (IF Sign(d) * x.v > 0 THEN PosInf ELSE NegInf)
    ELSE Fin(RoundDiv(x.v * S, d))

\* a * b of two dimensionless factors
Mul(a, b) == RoundDiv(a * b, S)

---------------------------------------------------------------------------
(* clear_sky_REST2V5: the clamps of lines 60-71 *)

AngstromMax == 25
AngstromMin == 0
PressureMax == 1100
PressureMin == 300
WaterMax    == 1000
WaterMin    == 0
OzoneMax    == 60
OzoneMin    == 0
NitrogenMax == 300
NitrogenMin == 0
AlbedoMax   == 10
AlbedoMin   == 0

ClampedFields == {"Angstrom_exponent", "pressure", "water_vapour", "ozone",
                  "nitrogen_dioxide", "surface_albedo"}

UpperBound(f) ==
    CASE f = "Angstrom_exponent" -> AngstromMax
      [] f = "pressure"          -> PressureMax
      [] f = "water_vapour"      -> WaterMax
      [] f = "ozone"             -> OzoneMax
      [] f = "nitrogen_dioxide"  -> NitrogenMax
      [] f = "surface_albedo"    -> AlbedoMax

LowerBound(f) ==
    CASE f = "Angstrom_exponent" -> AngstromMin
      [] f = "pressure"          -> PressureMin
      [] f = "water_vapour"      -> WaterMin
      [] f = "ozone"             -> OzoneMin
      [] f = "nitrogen_dioxide"  -> NitrogenMin
      [] f = "surface_albedo"    -> AlbedoMin

\* the upper clamp with its comparison reversed (x[x < hi] = hi)
ClampUpperFlipped(x, hi) == IF x < hi THEN hi ELSE x
\* x[x > hi] = hi
ClampUpper(x, hi) == IF x > hi THEN hi ELSE x

\* x[x < lo] = lo
ClampLower(x, lo) == IF x < lo THEN lo ELSE x

\* the two masked assignments of one field, upper bound first
ClampField(f, x) == ClampLower(ClampUpper(x, UpperBound(f)), LowerBound(f))

\* the clamps without lines 60-61: Angstrom_exponent is read as passed
ClampAllButAngstrom(a) ==
    [f \in DOMAIN a |-> IF f \in ClampedFields \ {"Angstrom_exponent"}
                        THEN ClampField(f, a[f]) ELSE a[f]]

\* lines 60-71 on the caller's arrays; the other arrays are left alone
ClampAll(a) ==
    [f \in DOMAIN a |-> IF f \in ClampedFields THEN ClampField(f, a[f]) ELSE a[f]]

---------------------------------------------------------------------------
(* clear_sky_REST2V5: air masses, transmittances, aerosol terms (lines 73-216) *)

\* cos(zenith_angle), Ba and BR1 (through amR) at each zenith angle of ZenithValues, x1000
GeometryTable ==
    0 :> [cz |-> 1000, Ba |-> 920, BR1 |-> 443, pos |-> {}, neg |-> {}]
 @@ 1047 :> [cz |-> 500, Ba |-> 800, BR1 |-> 440, pos |-> {}, neg |-> {}]
 @@ 1571 :> [cz |-> 0, Ba |-> 500, BR1 |-> 384, pos |-> {}, neg |-> {"cz"}]
 @@ 2618 :> [cz |-> -866, Ba |-> -1445, BR1 |-> 442, pos |-> {}, neg |-> {}]
 @@ (-2094) :> [cz |-> -500, Ba |-> -249, BR1 |-> 440, pos |-> {}, neg |-> {}]

\* TR1, Tg1, TR2, Tg2 (through amRe) at <<zenith_angle, pressure>>, x1000
RayleighTable ==
    <<0, 200>> :> [TR1 |-> 956, Tg1 |-> 999, TR2 |-> 998, Tg2 |-> 994, pos |-> {}, neg |-> {}]
 @@ <<0, 300>> :> [TR1 |-> 937, Tg1 |-> 999, TR2 |-> 997, Tg2 |-> 992, pos |-> {}, neg |-> {}]
 @@ <<0, 1013>> :> [TR1 |-> 823, Tg1 |-> 996, TR2 |-> 990, Tg2 |-> 976, pos |-> {}, neg |-> {}]
 @@ <<0, 1100>> :> [TR1 |-> 811, Tg1 |-> 996, TR2 |-> 989, Tg2 |-> 975, pos |-> {}, neg |-> {}]
 @@ <<0, 1200>> :> [TR1 |-> 798, Tg1 |-> 996, TR2 |-> 988, Tg2 |-> 973, pos |-> {}, neg |-> {}]
 @@ <<1047, 200>> :> [TR1 |-> 919, Tg1 |-> 998, TR2 |-> 996, Tg2 |-> 989, pos |-> {}, neg |-> {}]
 @@ <<1047, 300>> :> [TR1 |-> 885, Tg1 |-> 998, TR2 |-> 994, Tg2 |-> 985, pos |-> {}, neg |-> {}]
 @@ <<1047, 1013>> :> [TR1 |-> 703, Tg1 |-> 994, TR2 |-> 980, Tg2 |-> 961, pos |-> {}, neg |-> {}]
 @@ <<1047, 1100>> :> [TR1 |-> 686, Tg1 |-> 993, TR2 |-> 978, Tg2 |-> 959, pos |-> {}, neg |-> {}]
 @@ <<1047, 1200>> :> [TR1 |-> 667, Tg1 |-> 993, TR2 |-> 976, Tg2 |-> 956, pos |-> {}, neg |-> {}]
 @@ <<1571, 200>> :> [TR1 |-> 367, Tg1 |-> 980, TR2 |-> 927, Tg2 |-> 919, pos |-> {}, neg |-> {}]
 @@ <<1571, 300>> :> [TR1 |-> 264, Tg1 |-> 973, TR2 |-> 895, Tg2 |-> 904, pos |-> {}, neg |-> {}]
 @@ <<1571, 1013>> :> [TR1 |-> 39, Tg1 |-> 935, TR2 |-> 718, Tg2 |-> 834, pos |-> {}, neg |-> {}]
 @@ <<1571, 1100>> :> [TR1 |-> 29, Tg1 |-> 931, TR2 |-> 701, Tg2 |-> 826, pos |-> {}, neg |-> {}]
 @@ <<1571, 1200>> :> [TR1 |-> 19, Tg1 |-> 928, TR2 |-> 684, Tg2 |-> 818, pos |-> {}, neg |-> {}]
 @@ <<2618, 200>> :> [TR1 |-> 950, Tg1 |-> 999, TR2 |-> 998, Tg2 |-> 994, pos |-> {}, neg |-> {}]
 @@ <<2618, 300>> :> [TR1 |-> 928, Tg1 |-> 999, TR2 |-> 996, Tg2 |-> 991, pos |-> {}, neg |-> {}]
 @@ <<2618, 1013>> :> [TR1 |-> 802, Tg1 |-> 996, TR2 |-> 988, Tg2 |-> 974, pos |-> {}, neg |-> {}]
 @@ <<2618, 1100>> :> [TR1 |-> 789, Tg1 |-> 996, TR2 |-> 987, Tg2 |-> 972, pos |-> {}, neg |-> {}]
 @@ <<2618, 1200>> :> [TR1 |-> 774, Tg1 |-> 995, TR2 |-> 986, Tg2 |-> 970, pos |-> {}, neg |-> {}]
 @@ <<-2094, 200>> :> [TR1 |-> 918, Tg1 |-> 998, TR2 |-> 996, Tg2 |-> 989, pos |-> {}, neg |-> {}]
 @@ <<-2094, 300>> :> [TR1 |-> 884, Tg1 |-> 998, TR2 |-> 994, Tg2 |-> 985, pos |-> {}, neg |-> {}]
 @@ <<-2094, 1013>> :> [TR1 |-> 702, Tg1 |-> 994, TR2 |-> 980, Tg2 |-> 961, pos |-> {}, neg |-> {}]
 @@ <<-2094, 1100>> :> [TR1 |-> 685, Tg1 |-> 993, TR2 |-> 978, Tg2 |-> 959, pos |-> {}, neg |-> {}]
 @@ <<-2094, 1200>> :> [TR1 |-> 666, Tg1 |-> 993, TR2 |-> 976, Tg2 |-> 956, pos |-> {}, neg |-> {}]

\* To1 (through amo, f1, f2, f3) at <<zenith_angle, ozone>>, x1000
OzoneTable ==
    <<0, -10>> :> [To1 |-> 203, pos |-> {}, neg |-> {}]
 @@ <<0, 0>> :> [To1 |-> 1000, pos |-> {}, neg |-> {}]
 @@ <<0, 34>> :> [To1 |-> 965, pos |-> {}, neg |-> {}]
 @@ <<0, 60>> :> [To1 |-> 952, pos |-> {}, neg |-> {}]
 @@ <<0, 90>> :> [To1 |-> 942, pos |-> {}, neg |-> {}]
 @@ <<1047, -10>> :> [To1 |-> 1151, pos |-> {}, neg |-> {}]
 @@ <<1047, 0>> :> [To1 |-> 1000, pos |-> {}, neg |-> {}]
 @@ <<1047, 34>> :> [To1 |-> 942, pos |-> {}, neg |-> {}]
 @@ <<1047, 60>> :> [To1 |-> 916, pos |-> {}, neg |-> {}]
 @@ <<1047, 90>> :> [To1 |-> 893, pos |-> {}, neg |-> {}]
 @@ <<1571, -10>> :> [To1 |-> 1045, pos |-> {}, neg |-> {}]
 @@ <<1571, 0>> :> [To1 |-> 1000, pos |-> {}, neg |-> {}]
 @@ <<1571, 34>> :> [To1 |-> 769, pos |-> {}, neg |-> {}]
 @@ <<1571, 60>> :> [To1 |-> 658, pos |-> {}, neg |-> {}]
 @@ <<1571, 90>> :> [To1 |-> 514, pos |-> {}, neg |-> {}]
 @@ <<2618, -10>> :> [To1 |-> 2155, pos |-> {}, neg |-> {}]
 @@ <<2618, 0>> :> [To1 |-> 1000, pos |-> {}, neg |-> {}]
 @@ <<2618, 34>> :> [To1 |-> 961, pos |-> {}, neg |-> {}]
 @@ <<2618, 60>> :> [To1 |-> 946, pos |-> {}, neg |-> {}]
 @@ <<2618, 90>> :> [To1 |-> 934, pos |-> {}, neg |-> {}]
 @@ <<-2094, -10>> :> [To1 |-> 1149, pos |-> {}, neg |-> {}]
 @@ <<-2094, 0>> :> [To1 |-> 1000, pos |-> {}, neg |-> {}]
 @@ <<-2094, 34>> :> [To1 |-> 942, pos |-> {}, neg |-> {}]
 @@ <<-2094, 60>> :> [To1 |-> 916, pos |-> {}, neg |-> {}]
 @@ <<-2094, 90>> :> [To1 |-> 892, pos |-> {}, neg |-> {}]

\* Tn1, Tn1166 (through amw, g1, g2, g3) at <<zenith_angle, nitrogen_dioxide>>, x1000
NitrogenTable ==
    <<0, -1>> :> [Tn1 |-> 1000, Tn1166 |-> 1000, pos |-> {}, neg |-> {}]
 @@ <<0, 0>> :> [Tn1 |-> 1000, Tn1166 |-> 1000, pos |-> {}, neg |-> {}]
 @@ <<0, 2>> :> [Tn1 |-> 996, Tn1166 |-> 994, pos |-> {}, neg |-> {}]
 @@ <<0, 300>> :> [Tn1 |-> 849, Tn1166 |-> 771, pos |-> {}, neg |-> {}]
 @@ <<0, 500>> :> [Tn1 |-> 832, Tn1166 |-> 745, pos |-> {}, neg |-> {}]
 @@ <<1047, -1>> :> [Tn1 |-> 1000, Tn1166 |-> 1000, pos |-> {}, neg |-> {}]
 @@ <<1047, 0>> :> [Tn1 |-> 1000, Tn1166 |-> 1000, pos |-> {}, neg |-> {}]
 @@ <<1047, 2>> :> [Tn1 |-> 993, Tn1166 |-> 994, pos |-> {}, neg |-> {}]
 @@ <<1047, 300>> :> [Tn1 |-> 736, Tn1166 |-> 771, pos |-> {}, neg |-> {}]
 @@ <<1047, 500>> :> [Tn1 |-> 707, Tn1166 |-> 745, pos |-> {}, neg |-> {}]
 @@ <<1571, -1>> :> [Tn1 |-> 1000, Tn1166 |-> 1000, pos |-> {}, neg |-> {}]
 @@ <<1571, 0>> :> [Tn1 |-> 1000, Tn1166 |-> 1000, pos |-> {}, neg |-> {}]
 @@ <<1571, 2>> :> [Tn1 |-> 893, Tn1166 |-> 994, pos |-> {}, neg |-> {}]
 @@ <<1571, 300>> :> [Tn1 |-> 770, Tn1166 |-> 771, pos |-> {}, neg |-> {}]
 @@ <<1571, 500>> :> [Tn1 |-> 1000, Tn1166 |-> 745, pos |-> {}, neg |-> {}]
 @@ <<2618, -1>> :> [Tn1 |-> 1000, Tn1166 |-> 1000, pos |-> {}, neg |-> {}]
 @@ <<2618, 0>> :> [Tn1 |-> 1000, Tn1166 |-> 1000, pos |-> {}, neg |-> {}]
 @@ <<2618, 2>> :> [Tn1 |-> 996, Tn1166 |-> 994, pos |-> {}, neg |-> {}]
 @@ <<2618, 300>> :> [Tn1 |-> 829, Tn1166 |-> 771, pos |-> {}, neg |-> {}]
 @@ <<2618, 500>> :> [Tn1 |-> 810, Tn1166 |-> 745, pos |-> {}, neg |-> {}]
 @@ <<-2094, -1>> :> [Tn1 |-> 1000, Tn1166 |-> 1000, pos |-> {}, neg |-> {}]
 @@ <<-2094, 0>> :> [Tn1 |-> 1000, Tn1166 |-> 1000, pos |-> {}, neg |-> {}]
 @@ <<-2094, 2>> :> [Tn1 |-> 993, Tn1166 |-> 994, pos |-> {}, neg |-> {}]
 @@ <<-2094, 300>> :> [Tn1 |-> 735, Tn1166 |-> 771, pos |-> {}, neg |-> {}]
 @@ <<-2094, 500>> :> [Tn1 |-> 706, Tn1166 |-> 745, pos |-> {}, neg |-> {}]

\* Tw1, Tw1166, Tw2, Tw2166 at <<zenith_angle, water_vapour>>, x1000
WaterTable ==
    <<0, -100>> :> [Tw1 |-> 938, Tw1166 |-> 911, Tw2 |-> 837, Tw2166 |-> 820, pos |-> {}, neg |-> {}]
 @@ <<0, 0>> :> [Tw1 |-> 1000, Tw1166 |-> 1000, Tw2 |-> 1000, Tw2166 |-> 1000, pos |-> {}, neg |-> {}]
 @@ <<0, 142>> :> [Tw1 |-> 998, Tw1166 |-> 997, Tw2 |-> 787, Tw2166 |-> 752, pos |-> {}, neg |-> {}]
 @@ <<0, 1000>> :> [Tw1 |-> 990, Tw1166 |-> 984, Tw2 |-> 671, Tw2166 |-> 634, pos |-> {}, neg |-> {}]
 @@ <<0, 1500>> :> [Tw1 |-> 986, Tw1166 |-> 977, Tw2 |-> 671, Tw2166 |-> 637, pos |-> {}, neg |-> {}]
 @@ <<1047, -100>> :> [Tw1 |-> 900, Tw1166 |-> 911, Tw2 |-> 813, Tw2166 |-> 820, pos |-> {}, neg |-> {}]
 @@ <<1047, 0>> :> [Tw1 |-> 1000, Tw1166 |-> 1000, Tw2 |-> 1000, Tw2166 |-> 1000, pos |-> {}, neg |-> {}]
 @@ <<1047, 142>> :> [Tw1 |-> 996, Tw1166 |-> 997, Tw2 |-> 739, Tw2166 |-> 752, pos |-> {}, neg |-> {}]
 @@ <<1047, 1000>> :> [Tw1 |-> 981, Tw1166 |-> 984, Tw2 |-> 619, Tw2166 |-> 634, pos |-> {}, neg |-> {}]
 @@ <<1047, 1500>> :> [Tw1 |-> 973, Tw1166 |-> 977, Tw2 |-> 623, Tw2166 |-> 637, pos |-> {}, neg |-> {}]
 @@ <<1571, -100>> :> [Tw1 |-> 755, Tw1166 |-> 911, Tw2 |-> 1015, Tw2166 |-> 820, pos |-> {}, neg |-> {}]
 @@ <<1571, 0>> :> [Tw1 |-> 1000, Tw1166 |-> 1000, Tw2 |-> 1000, Tw2166 |-> 1000, pos |-> {}, neg |-> {}]
 @@ <<1571, 142>> :> [Tw1 |-> 956, Tw1166 |-> 997, Tw2 |-> 484, Tw2166 |-> 752, pos |-> {}, neg |-> {}]
 @@ <<1571, 1000>> :> [Tw1 |-> 855, Tw1166 |-> 984, Tw2 |-> 352, Tw2166 |-> 634, pos |-> {}, neg |-> {}]
 @@ <<1571, 1500>> :> [Tw1 |-> 812, Tw1166 |-> 977, Tw2 |-> 358, Tw2166 |-> 637, pos |-> {}, neg |-> {}]
 @@ <<2618, -100>> :> [Tw1 |-> 931, Tw1166 |-> 911, Tw2 |-> 832, Tw2166 |-> 820, pos |-> {}, neg |-> {}]
 @@ <<2618, 0>> :> [Tw1 |-> 1000, Tw1166 |-> 1000, Tw2 |-> 1000, Tw2166 |-> 1000, pos |-> {}, neg |-> {}]
 @@ <<2618, 142>> :> [Tw1 |-> 998, Tw1166 |-> 997, Tw2 |-> 777, Tw2166 |-> 752, pos |-> {}, neg |-> {}]
 @@ <<2618, 1000>> :> [Tw1 |-> 988, Tw1166 |-> 984, Tw2 |-> 660, Tw2166 |-> 634, pos |-> {}, neg |-> {}]
 @@ <<2618, 1500>> :> [Tw1 |-> 984, Tw1166 |-> 977, Tw2 |-> 661, Tw2166 |-> 637, pos |-> {}, neg |-> {}]
 @@ <<-2094, -100>> :> [Tw1 |-> 900, Tw1166 |-> 911, Tw2 |-> 813, Tw2166 |-> 820, pos |-> {}, neg |-> {}]
 @@ <<-2094, 0>> :> [Tw1 |-> 1000, Tw1166 |-> 1000, Tw2 |-> 1000, Tw2166 |-> 1000, pos |-> {}, neg |-> {}]
 @@ <<-2094, 142>> :> [Tw1 |-> 996, Tw1166 |-> 997, Tw2 |-> 739, Tw2166 |-> 752, pos |-> {}, neg |-> {}]
 @@ <<-2094, 1000>> :> [Tw1 |-> 981, Tw1166 |-> 984, Tw2 |-> 619, Tw2166 |-> 634, pos |-> {}, neg |-> {}]
 @@ <<-2094, 1500>> :> [Tw1 |-> 973, Tw1166 |-> 977, Tw2 |-> 623, Tw2166 |-> 637, pos |-> {}, neg |-> {}]

\* aerosol terms of both bands at <<zenith_angle, AOD550, Angstrom_exponent>>, x1000
AerosolTable ==
    <<0, -50, -10>> :> [TA1 |-> 1000, TA1q |-> 1000, TAS1q |-> 1000, F1 |-> 4115, rs1 |-> 133, TA2 |-> 1000, TA2q |-> 1000, TAS2q |-> 1000, F2 |-> 3952, rs2 |-> 9, pos |-> {}, neg |-> {}]
 @@ <<0, -50, 0>> :> [TA1 |-> 1000, TA1q |-> 1000, TAS1q |-> 1000, F1 |-> 4115, rs1 |-> 134, TA2 |-> 1000, TA2q |-> 1000, TAS2q |-> 1000, F2 |-> 3952, rs2 |-> 10, pos |-> {}, neg |-> {}]
 @@ <<0, -50, 13>> :> [TA1 |-> 1000, TA1q |-> 1000, TAS1q |-> 1000, F1 |-> 4115, rs1 |-> 135, TA2 |-> 1000, TA2q |-> 1000, TAS2q |-> 1000, F2 |-> 3952, rs2 |-> 11, pos |-> {}, neg |-> {}]
 @@ <<0, -50, 25>> :> [TA1 |-> 1000, TA1q |-> 1000, TAS1q |-> 1000, F1 |-> 4115, rs1 |-> 136, TA2 |-> 1000, TA2q |-> 1000, TAS2q |-> 1000, F2 |-> 3952, rs2 |-> 12, pos |-> {}, neg |-> {}]
 @@ <<0, -50, 50>> :> [TA1 |-> 1000, TA1q |-> 1000, TAS1q |-> 1000, F1 |-> 4115, rs1 |-> 137, TA2 |-> 1000, TA2q |-> 1000, TAS2q |-> 1000, F2 |-> 3952, rs2 |-> 14, pos |-> {}, neg |-> {}]
 @@ <<0, 0, -10>> :> [TA1 |-> 1000, TA1q |-> 1000, TAS1q |-> 1000, F1 |-> 4115, rs1 |-> 133, TA2 |-> 1000, TA2q |-> 1000, TAS2q |-> 1000, F2 |-> 3952, rs2 |-> 9, pos |-> {}, neg |-> {}]
 @@ <<0, 0, 0>> :> [TA1 |-> 1000, TA1q |-> 1000, TAS1q |-> 1000, F1 |-> 4115, rs1 |-> 134, TA2 |-> 1000, TA2q |-> 1000, TAS2q |-> 1000, F2 |-> 3952, rs2 |-> 10, pos |-> {}, neg |-> {}]
 @@ <<0, 0, 13>> :> [TA1 |-> 1000, TA1q |-> 1000, TAS1q |-> 1000, F1 |-> 4115, rs1 |-> 135, TA2 |-> 1000, TA2q |-> 1000, TAS2q |-> 1000, F2 |-> 3952, rs2 |-> 11, pos |-> {}, neg |-> {}]
 @@ <<0, 0, 25>> :> [TA1 |-> 1000, TA1q |-> 1000, TAS1q |-> 1000, F1 |-> 4115, rs1 |-> 136, TA2 |-> 1000, TA2q |-> 1000, TAS2q |-> 1000, F2 |-> 3952, rs2 |-> 12, pos |-> {}, neg |-> {}]
 @@ <<0, 0, 50>> :> [TA1 |-> 1000, TA1q |-> 1000, TAS1q |-> 1000, F1 |-> 4115, rs1 |-> 137, TA2 |-> 1000, TA2q |-> 1000, TAS2q |-> 1000, F2 |-> 3952, rs2 |-> 14, pos |-> {}, neg |-> {}]
 @@ <<0, 10, -10>> :> [TA1 |-> 865, TA1q |-> 964, TAS1q |-> 967, F1 |-> 3774, rs1 |-> 153, TA2 |-> 770, TA2q |-> 937, TAS2q |-> 947, F2 |-> 3279, rs2 |-> 21, pos |-> {}, neg |-> {}]
 @@ <<0, 10, 0>> :> [TA1 |-> 905, TA1q |-> 975, TAS1q |-> 977, F1 |-> 3876, rs1 |-> 158, TA2 |-> 905, TA2q |-> 975, TAS2q |-> 979, F2 |-> 3667, rs2 |-> 23, pos |-> {}, neg |-> {}]
 @@ <<0, 10, 13>> :> [TA1 |-> 904, TA1q |-> 975, TAS1q |-> 977, F1 |-> 3873, rs1 |-> 157, TA2 |-> 957, TA2q |-> 989, TAS2q |-> 991, F2 |-> 3822, rs2 |-> 24, pos |-> {}, neg |-> {}]
 @@ <<0, 10, 25>> :> [TA1 |-> 890, TA1q |-> 971, TAS1q |-> 974, F1 |-> 3838, rs1 |-> 154, TA2 |-> 977, TA2q |-> 994, TAS2q |-> 995, F2 |-> 3882, rs2 |-> 25, pos |-> {}, neg |-> {}]
 @@ <<0, 10, 50>> :> [TA1 |-> 773, TA1q |-> 938, TAS1q |-> 943, F1 |-> 3538, rs1 |-> 149, TA2 |-> 995, TA2q |-> 999, TAS2q |-> 999, F2 |-> 3938, rs2 |-> 87, pos |-> {}, neg |-> {}]
 @@ <<0, 500, -10>> :> [TA1 |-> 232, TA1q |-> 694, TAS1q |-> 715, F1 |-> 1896, rs1 |-> 240, TA2 |-> 147, TA2q |-> 619, TAS2q |-> 668, F2 |-> 1505, rs2 |-> 62, pos |-> {}, neg |-> {}]
 @@ <<0, 500, 0>> :> [TA1 |-> 333, TA1q |-> 760, TAS1q |-> 776, F1 |-> 2264, rs1 |-> 284, TA2 |-> 333, TA2q |-> 760, TAS2q |-> 794, F2 |-> 2084, rs2 |-> 104, pos |-> {}, neg |-> {}]
 @@ <<0, 500, 13>> :> [TA1 |-> 100, TA1q |-> 563, TAS1q |-> 589, F1 |-> 1264, rs1 |-> 318, TA2 |-> 371, TA2q |-> 780, TAS2q |-> 812, F2 |-> 2190, rs2 |-> 161, pos |-> {}, neg |-> {}]
 @@ <<0, 500, 25>> :> [TA1 |-> 19, TA1q |-> 370, TAS1q |-> 401, F1 |-> 510, rs1 |-> 346, TA2 |-> 389, TA2q |-> 790, TAS2q |-> 820, F2 |-> 2239, rs2 |-> 220, pos |-> {}, neg |-> {}]
 @@ <<0, 500, 50>> :> [TA1 |-> 0, TA1q |-> 1, TAS1q |-> 2, F1 |-> -1105, rs1 |-> 346, TA2 |-> 824, TA2q |-> 953, TAS2q |-> 960, F2 |-> 3431, rs2 |-> 965, pos |-> {"TA1"}, neg |-> {}]
 @@ <<1047, -50, -10>> :> [TA1 |-> 1000, TA1q |-> 1000, TAS1q |-> 1000, F1 |-> 4578, rs1 |-> 133, TA2 |-> 1000, TA2q |-> 1000, TAS2q |-> 1000, F2 |-> 4321, rs2 |-> 9, pos |-> {}, neg |-> {}]
 @@ <<1047, -50, 0>> :> [TA1 |-> 1000, TA1q |-> 1000, TAS1q |-> 1000, F1 |-> 4578, rs1 |-> 134, TA2 |-> 1000, TA2q |-> 1000, TAS2q |-> 1000, F2 |-> 4321, rs2 |-> 10, pos |-> {}, neg |-> {}]
 @@ <<1047, -50, 13>> :> [TA1 |-> 1000, TA1q |-> 1000, TAS1q |-> 1000, F1 |-> 4578, rs1 |-> 135, TA2 |-> 1000, TA2q |-> 1000, TAS2q |-> 1000, F2 |-> 4321, rs2 |-> 11, pos |-> {}, neg |-> {}]
 @@ <<1047, -50, 25>> :> [TA1 |-> 1000, TA1q |-> 1000, TAS1q |-> 1000, F1 |-> 4578, rs1 |-> 136, TA2 |-> 1000, TA2q |-> 1000, TAS2q |-> 1000, F2 |-> 4321, rs2 |-> 12, pos |-> {}, neg |-> {}]
 @@ <<1047, -50, 50>> :> [TA1 |-> 1000, TA1q |-> 1000, TAS1q |-> 1000, F1 |-> 4578, rs1 |-> 137, TA2 |-> 1000, TA2q |-> 1000, TAS2q |-> 1000, F2 |-> 4321, rs2 |-> 14, pos |-> {}, neg |-> {}]
 @@ <<1047, 0, -10>> :> [TA1 |-> 1000, TA1q |-> 1000, TAS1q |-> 1000, F1 |-> 4578, rs1 |-> 133, TA2 |-> 1000, TA2q |-> 1000, TAS2q |-> 1000, F2 |-> 4321, rs2 |-> 9, pos |-> {}, neg |-> {}]
 @@ <<1047, 0, 0>> :> [TA1 |-> 1000, TA1q |-> 1000, TAS1q |-> 1000, F1 |-> 4578, rs1 |-> 134, TA2 |-> 1000, TA2q |-> 1000, TAS2q |-> 1000, F2 |-> 4321, rs2 |-> 10, pos |-> {}, neg |-> {}]
 @@ <<1047, 0, 13>> :> [TA1 |-> 1000, TA1q |-> 1000, TAS1q |-> 1000, F1 |-> 4578, rs1 |-> 135, TA2 |-> 1000, TA2q |-> 1000, TAS2q |-> 1000, F2 |-> 4321, rs2 |-> 11, pos |-> {}, neg |-> {}]
 @@ <<1047, 0, 25>> :> [TA1 |-> 1000, TA1q |-> 1000, TAS1q |-> 1000, F1 |-> 4578, rs1 |-> 136, TA2 |-> 1000, TA2q |-> 1000, TAS2q |-> 1000, F2 |-> 4321, rs2 |-> 12, pos |-> {}, neg |-> {}]
 @@ <<1047, 0, 50>> :> [TA1 |-> 1000, TA1q |-> 1000, TAS1q |-> 1000, F1 |-> 4578, rs1 |-> 137, TA2 |-> 1000, TA2q |-> 1000, TAS2q |-> 1000, F2 |-> 4321, rs2 |-> 14, pos |-> {}, neg |-> {}]
 @@ <<1047, 10, -10>> :> [TA1 |-> 708, TA1q |-> 917, TAS1q |-> 924, F1 |-> 3647, rs1 |-> 153, TA2 |-> 580, TA2q |-> 873, TAS2q |-> 892, F2 |-> 3040, rs2 |-> 21, pos |-> {}, neg |-> {}]
 @@ <<1047, 10, 0>> :> [TA1 |-> 819, TA1q |-> 951, TAS1q |-> 955, F1 |-> 3995, rs1 |-> 158, TA2 |-> 819, TA2q |-> 951, TAS2q |-> 959, F2 |-> 3760, rs2 |-> 23, pos |-> {}, neg |-> {}]
 @@ <<1047, 10, 13>> :> [TA1 |-> 817, TA1q |-> 951, TAS1q |-> 955, F1 |-> 3990, rs1 |-> 157, TA2 |-> 916, TA2q |-> 978, TAS2q |-> 982, F2 |-> 4059, rs2 |-> 24, pos |-> {}, neg |-> {}]
 @@ <<1047, 10, 25>> :> [TA1 |-> 795, TA1q |-> 944, TAS1q |-> 949, F1 |-> 3919, rs1 |-> 154, TA2 |-> 954, TA2q |-> 988, TAS2q |-> 990, F2 |-> 4178, rs2 |-> 25, pos |-> {}, neg |-> {}]
 @@ <<1047, 10, 50>> :> [TA1 |-> 606, TA1q |-> 882, TAS1q |-> 891, F1 |-> 3329, rs1 |-> 149, TA2 |-> 991, TA2q |-> 998, TAS2q |-> 998, F2 |-> 4293, rs2 |-> 87, pos |-> {}, neg |-> {}]
 @@ <<1047, 500, -10>> :> [TA1 |-> 30, TA1q |-> 415, TAS1q |-> 446, F1 |-> 994, rs1 |-> 240, TA2 |-> 10, TA2q |-> 318, TAS2q |-> 382, F2 |-> 600, rs2 |-> 62, pos |-> {}, neg |-> {}]
 @@ <<1047, 500, 0>> :> [TA1 |-> 111, TA1q |-> 577, TAS1q |-> 603, F1 |-> 1556, rs1 |-> 284, TA2 |-> 111, TA2q |-> 577, TAS2q |-> 630, F2 |-> 1412, rs2 |-> 104, pos |-> {}, neg |-> {}]
 @@ <<1047, 500, 13>> :> [TA1 |-> 12, TA1q |-> 333, TAS1q |-> 364, F1 |-> 757, rs1 |-> 318, TA2 |-> 159, TA2q |-> 632, TAS2q |-> 680, F2 |-> 1633, rs2 |-> 161, pos |-> {}, neg |-> {}]
 @@ <<1047, 500, 25>> :> [TA1 |-> 1, TA1q |-> 177, TAS1q |-> 203, F1 |-> 347, rs1 |-> 346, TA2 |-> 208, TA2q |-> 675, TAS2q |-> 719, F2 |-> 1829, rs2 |-> 220, pos |-> {}, neg |-> {}]
 @@ <<1047, 500, 50>> :> [TA1 |-> 0, TA1q |-> 0, TAS1q |-> 0, F1 |-> -619, rs1 |-> 346, TA2 |-> 713, TA2q |-> 919, TAS2q |-> 932, F2 |-> 3441, rs2 |-> 965, pos |-> {}, neg |-> {}]
 @@ <<1571, -50, -10>> :> [TA1 |-> 1000, TA1q |-> 1000, TAS1q |-> 1000, F1 |-> 36927, rs1 |-> 133, TA2 |-> 1000, TA2q |-> 1000, TAS2q |-> 1000, F2 |-> 2416, rs2 |-> 9, pos |-> {}, neg |-> {}]
 @@ <<1571, -50, 0>> :> [TA1 |-> 1000, TA1q |-> 1000, TAS1q |-> 1000, F1 |-> 36927, rs1 |-> 134, TA2 |-> 1000, TA2q |-> 1000, TAS2q |-> 1000, F2 |-> 2416, rs2 |-> 10, pos |-> {}, neg |-> {}]
 @@ <<1571, -50, 13>> :> [TA1 |-> 1000, TA1q |-> 1000, TAS1q |-> 1000, F1 |-> 36927, rs1 |-> 135, TA2 |-> 1000, TA2q |-> 1000, TAS2q |-> 1000, F2 |-> 2416, rs2 |-> 11, pos |-> {}, neg |-> {}]
 @@ <<1571, -50, 25>> :> [TA1 |-> 1000, TA1q |-> 1000, TAS1q |-> 1000, F1 |-> 36927, rs1 |-> 136, TA2 |-> 1000, TA2q |-> 1000, TAS2q |-> 1000, F2 |-> 2416, rs2 |-> 12, pos |-> {}, neg |-> {}]
 @@ <<1571, -50, 50>> :> [TA1 |-> 1000, TA1q |-> 1000, TAS1q |-> 1000, F1 |-> 36927, rs1 |-> 137, TA2 |-> 1000, TA2q |-> 1000, TAS2q |-> 1000, F2 |-> 2416, rs2 |-> 14, pos |-> {}, neg |-> {}]
 @@ <<1571, 0, -10>> :> [TA1 |-> 1000, TA1q |-> 1000, TAS1q |-> 1000, F1 |-> 36927, rs1 |-> 133, TA2 |-> 1000, TA2q |-> 1000, TAS2q |-> 1000, F2 |-> 2416, rs2 |-> 9, pos |-> {}, neg |-> {}]
 @@ <<1571, 0, 0>> :> [TA1 |-> 1000, TA1q |-> 1000, TAS1q |-> 1000, F1 |-> 36927, rs1 |-> 134, TA2 |-> 1000, TA2q |-> 1000, TAS2q |-> 1000, F2 |-> 2416, rs2 |-> 10, pos |-> {}, neg |-> {}]
 @@ <<1571, 0, 13>> :> [TA1 |-> 1000, TA1q |-> 1000, TAS1q |-> 1000, F1 |-> 36927, rs1 |-> 135, TA2 |-> 1000, TA2q |-> 1000, TAS2q |-> 1000, F2 |-> 2416, rs2 |-> 11, pos |-> {}, neg |-> {}]
 @@ <<1571, 0, 25>> :> [TA1 |-> 1000, TA1q |-> 1000, TAS1q |-> 1000, F1 |-> 36927, rs1 |-> 136, TA2 |-> 1000, TA2q |-> 1000, TAS2q |-> 1000, F2 |-> 2416, rs2 |-> 12, pos |-> {}, neg |-> {}]
 @@ <<1571, 0, 50>> :> [TA1 |-> 1000, TA1q |-> 1000, TAS1q |-> 1000, F1 |-> 36927, rs1 |-> 137, TA2 |-> 1000, TA2q |-> 1000, TAS2q |-> 1000, F2 |-> 2416, rs2 |-> 14, pos |-> {}, neg |-> {}]
 @@ <<1571, 10, -10>> :> [TA1 |-> 0, TA1q |-> 13, TAS1q |-> 18, F1 |-> 8110, rs1 |-> 153, TA2 |-> 0, TA2q |-> 0, TAS2q |-> 0, F2 |-> 467, rs2 |-> 21, pos |-> {"TA1", "TA2", "TA2q", "TAS2q"}, neg |-> {}]
 @@ <<1571, 10, 0>> :> [TA1 |-> 1, TA1q |-> 177, TAS1q |-> 204, F1 |-> 12998, rs1 |-> 158, TA2 |-> 1, TA2q |-> 177, TAS2q |-> 234, F2 |-> 926, rs2 |-> 23, pos |-> {}, neg |-> {}]
 @@ <<1571, 10, 13>> :> [TA1 |-> 2, TA1q |-> 212, TAS1q |-> 240, F1 |-> 13759, rs1 |-> 157, TA2 |-> 83, TA2q |-> 537, TAS2q |-> 593, F2 |-> 1407, rs2 |-> 24, pos |-> {}, neg |-> {}]
 @@ <<1571, 10, 25>> :> [TA1 |-> 5, TA1q |-> 270, TAS1q |-> 300, F1 |-> 14991, rs1 |-> 154, TA2 |-> 292, TA2q |-> 735, TAS2q |-> 772, F2 |-> 1750, rs2 |-> 25, pos |-> {}, neg |-> {}]
 @@ <<1571, 10, 50>> :> [TA1 |-> 0, TA1q |-> 0, TAS1q |-> 0, F1 |-> 4205, rs1 |-> 149, TA2 |-> 775, TA2q |-> 938, TAS2q |-> 948, F2 |-> 2230, rs2 |-> 87, pos |-> {"TA1", "TA1q", "TAS1q"}, neg |-> {}]
 @@ <<1571, 500, -10>> :> [TA1 |-> 0, TA1q |-> 0, TAS1q |-> 0, F1 |-> 4002, rs1 |-> 240, TA2 |-> 0, TA2q |-> 0, TAS2q |-> 0, F2 |-> 385, rs2 |-> 62, pos |-> {"TA1", "TA1q", "TAS1q"}, neg |-> {}]
 @@ <<1571, 500, 0>> :> [TA1 |-> 0, TA1q |-> 0, TAS1q |-> 0, F1 |-> 4784, rs1 |-> 284, TA2 |-> 0, TA2q |-> 0, TAS2q |-> 0, F2 |-> 446, rs2 |-> 104, pos |-> {"TA1", "TA1q", "TAS1q", "TA2", "TA2q", "TAS2q"}, neg |-> {}]
 @@ <<1571, 500, 13>> :> [TA1 |-> 0, TA1q |-> 0, TAS1q |-> 0, F1 |-> 4310, rs1 |-> 318, TA2 |-> 0, TA2q |-> 21, TAS2q |-> 39, F2 |-> 667, rs2 |-> 161, pos |-> {"TA1", "TA1q", "TAS1q", "TA2"}, neg |-> {}]
 @@ <<1571, 500, 25>> :> [TA1 |-> 0, TA1q |-> 0, TAS1q |-> 0, F1 |-> 4020, rs1 |-> 346, TA2 |-> 0, TA2q |-> 129, TAS2q |-> 179, F2 |-> 861, rs2 |-> 220, pos |-> {"TA1", "TA1q", "TAS1q", "TA2"}, neg |-> {}]
 @@ <<1571, 500, 50>> :> [TA1 |-> 1000, TA1q |-> 1000, TAS1q |-> 1000, F1 |-> 36927, rs1 |-> 346, TA2 |-> 213, TA2q |-> 679, TAS2q |-> 722, F2 |-> 1644, rs2 |-> 965, pos |-> {}, neg |-> {}]
 @@ <<2618, -50, -10>> :> [TA1 |-> 1000, TA1q |-> 1000, TAS1q |-> 1000, F1 |-> 4183, rs1 |-> 133, TA2 |-> 1000, TA2q |-> 1000, TAS2q |-> 1000, F2 |-> 4018, rs2 |-> 9, pos |-> {}, neg |-> {}]
 @@ <<2618, -50, 0>> :> [TA1 |-> 1000, TA1q |-> 1000, TAS1q |-> 1000, F1 |-> 4183, rs1 |-> 134, TA2 |-> 1000, TA2q |-> 1000, TAS2q |-> 1000, F2 |-> 4018, rs2 |-> 10, pos |-> {}, neg |-> {}]
 @@ <<2618, -50, 13>> :> [TA1 |-> 1000, TA1q |-> 1000, TAS1q |-> 1000, F1 |-> 4183, rs1 |-> 135, TA2 |-> 1000, TA2q |-> 1000, TAS2q |-> 1000, F2 |-> 4018, rs2 |-> 11, pos |-> {}, neg |-> {}]
 @@ <<2618, -50, 25>> :> [TA1 |-> 1000, TA1q |-> 1000, TAS1q |-> 1000, F1 |-> 4183, rs1 |-> 136, TA2 |-> 1000, TA2q |-> 1000, TAS2q |-> 1000, F2 |-> 4018, rs2 |-> 12, pos |-> {}, neg |-> {}]
 @@ <<2618, -50, 50>> :> [TA1 |-> 1000, TA1q |-> 1000, TAS1q |-> 1000, F1 |-> 4183, rs1 |-> 137, TA2 |-> 1000, TA2q |-> 1000, TAS2q |-> 1000, F2 |-> 4018, rs2 |-> 14, pos |-> {}, neg |-> {}]
 @@ <<2618, 0, -10>> :> [TA1 |-> 1000, TA1q |-> 1000, TAS1q |-> 1000, F1 |-> 4183, rs1 |-> 133, TA2 |-> 1000, TA2q |-> 1000, TAS2q |-> 1000, F2 |-> 4018, rs2 |-> 9, pos |-> {}, neg |-> {}]
 @@ <<2618, 0, 0>> :> [TA1 |-> 1000, TA1q |-> 1000, TAS1q |-> 1000, F1 |-> 4183, rs1 |-> 134, TA2 |-> 1000, TA2q |-> 1000, TAS2q |-> 1000, F2 |-> 4018, rs2 |-> 10, pos |-> {}, neg |-> {}]
 @@ <<2618, 0, 13>> :> [TA1 |-> 1000, TA1q |-> 1000, TAS1q |-> 1000, F1 |-> 4183, rs1 |-> 135, TA2 |-> 1000, TA2q |-> 1000, TAS2q |-> 1000, F2 |-> 4018, rs2 |-> 11, pos |-> {}, neg |-> {}]
 @@ <<2618, 0, 25>> :> [TA1 |-> 1000, TA1q |-> 1000, TAS1q |-> 1000, F1 |-> 4183, rs1 |-> 136, TA2 |-> 1000, TA2q |-> 1000, TAS2q |-> 1000, F2 |-> 4018, rs2 |-> 12, pos |-> {}, neg |-> {}]
 @@ <<2618, 0, 50>> :> [TA1 |-> 1000, TA1q |-> 1000, TAS1q |-> 1000, F1 |-> 4183, rs1 |-> 137, TA2 |-> 1000, TA2q |-> 1000, TAS2q |-> 1000, F2 |-> 4018, rs2 |-> 14, pos |-> {}, neg |-> {}]
 @@ <<2618, 10, -10>> :> [TA1 |-> 841, TA1q |-> 958, TAS1q |-> 961, F1 |-> 3764, rs1 |-> 153, TA2 |-> 738, TA2q |-> 927, TAS2q |-> 938, F2 |-> 3263, rs2 |-> 21, pos |-> {}, neg |-> {}]
 @@ <<2618, 10, 0>> :> [TA1 |-> 891, TA1q |-> 972, TAS1q |-> 974, F1 |-> 3897, rs1 |-> 158, TA2 |-> 891, TA2q |-> 972, TAS2q |-> 976, F2 |-> 3697, rs2 |-> 23, pos |-> {}, neg |-> {}]
 @@ <<2618, 10, 13>> :> [TA1 |-> 890, TA1q |-> 971, TAS1q |-> 973, F1 |-> 3893, rs1 |-> 157, TA2 |-> 951, TA2q |-> 987, TAS2q |-> 989, F2 |-> 3872, rs2 |-> 24, pos |-> {}, neg |-> {}]
 @@ <<2618, 10, 25>> :> [TA1 |-> 874, TA1q |-> 967, TAS1q |-> 970, F1 |-> 3853, rs1 |-> 154, TA2 |-> 973, TA2q |-> 993, TAS2q |-> 994, F2 |-> 3939, rs2 |-> 25, pos |-> {}, neg |-> {}]
 @@ <<2618, 10, 50>> :> [TA1 |-> 744, TA1q |-> 929, TAS1q |-> 934, F1 |-> 3505, rs1 |-> 149, TA2 |-> 995, TA2q |-> 999, TAS2q |-> 999, F2 |-> 4002, rs2 |-> 87, pos |-> {}, neg |-> {}]
 @@ <<2618, 500, -10>> :> [TA1 |-> 172, TA1q |-> 644, TAS1q |-> 667, F1 |-> 1678, rs1 |-> 240, TA2 |-> 102, TA2q |-> 565, TAS2q |-> 619, F2 |-> 1327, rs2 |-> 62, pos |-> {}, neg |-> {}]
 @@ <<2618, 500, 0>> :> [TA1 |-> 281, TA1q |-> 728, TAS1q |-> 747, F1 |-> 2111, rs1 |-> 284, TA2 |-> 281, TA2q |-> 728, TAS2q |-> 766, F2 |-> 1971, rs2 |-> 104, pos |-> {}, neg |-> {}]
 @@ <<2618, 500, 13>> :> [TA1 |-> 72, TA1q |-> 518, TAS1q |-> 546, F1 |-> 1124, rs1 |-> 318, TA2 |-> 322, TA2q |-> 753, TAS2q |-> 788, F2 |-> 2097, rs2 |-> 161, pos |-> {}, neg |-> {}]
 @@ <<2618, 500, 25>> :> [TA1 |-> 12, TA1q |-> 328, TAS1q |-> 359, F1 |-> 445, rs1 |-> 346, TA2 |-> 347, TA2q |-> 768, TAS2q |-> 801, F2 |-> 2170, rs2 |-> 220, pos |-> {}, neg |-> {}]
 @@ <<2618, 500, 50>> :> [TA1 |-> 0, TA1q |-> 0, TAS1q |-> 0, F1 |-> -1098, rs1 |-> 346, TA2 |-> 803, TA2q |-> 947, TAS2q |-> 955, F2 |-> 3447, rs2 |-> 965, pos |-> {"TA1", "TA1q", "TAS1q"}, neg |-> {}]
 @@ <<-2094, -50, -10>> :> [TA1 |-> 1000, TA1q |-> 1000, TAS1q |-> 1000, F1 |-> 4580, rs1 |-> 133, TA2 |-> 1000, TA2q |-> 1000, TAS2q |-> 1000, F2 |-> 4322, rs2 |-> 9, pos |-> {}, neg |-> {}]
 @@ <<-2094, -50, 0>> :> [TA1 |-> 1000, TA1q |-> 1000, TAS1q |-> 1000, F1 |-> 4580, rs1 |-> 134, TA2 |-> 1000, TA2q |-> 1000, TAS2q |-> 1000, F2 |-> 4322, rs2 |-> 10, pos |-> {}, neg |-> {}]
 @@ <<-2094, -50, 13>> :> [TA1 |-> 1000, TA1q |-> 1000, TAS1q |-> 1000, F1 |-> 4580, rs1 |-> 135, TA2 |-> 1000, TA2q |-> 1000, TAS2q |-> 1000, F2 |-> 4322, rs2 |-> 11, pos |-> {}, neg |-> {}]
 @@ <<-2094, -50, 25>> :> [TA1 |-> 1000, TA1q |-> 1000, TAS1q |-> 1000, F1 |-> 4580, rs1 |-> 136, TA2 |-> 1000, TA2q |-> 1000, TAS2q |-> 1000, F2 |-> 4322, rs2 |-> 12, pos |-> {}, neg |-> {}]
 @@ <<-2094, -50, 50>> :> [TA1 |-> 1000, TA1q |-> 1000, TAS1q |-> 1000, F1 |-> 4580, rs1 |-> 137, TA2 |-> 1000, TA2q |-> 1000, TAS2q |-> 1000, F2 |-> 4322, rs2 |-> 14, pos |-> {}, neg |-> {}]
 @@ <<-2094, 0, -10>> :> [TA1 |-> 1000, TA1q |-> 1000, TAS1q |-> 1000, F1 |-> 4580, rs1 |-> 133, TA2 |-> 1000, TA2q |-> 1000, TAS2q |-> 1000, F2 |-> 4322, rs2 |-> 9, pos |-> {}, neg |-> {}]
 @@ <<-2094, 0, 0>> :> [TA1 |-> 1000, TA1q |-> 1000, TAS1q |-> 1000, F1 |-> 4580, rs1 |-> 134, TA2 |-> 1000, TA2q |-> 1000, TAS2q |-> 1000, F2 |-> 4322, rs2 |-> 10, pos |-> {}, neg |-> {}]
 @@ <<-2094, 0, 13>> :> [TA1 |-> 1000, TA1q |-> 1000, TAS1q |-> 1000, F1 |-> 4580, rs1 |-> 135, TA2 |-> 1000, TA2q |-> 1000, TAS2q |-> 1000, F2 |-> 4322, rs2 |-> 11, pos |-> {}, neg |-> {}]
 @@ <<-2094, 0, 25>> :> [TA1 |-> 1000, TA1q |-> 1000, TAS1q |-> 1000, F1 |-> 4580, rs1 |-> 136, TA2 |-> 1000, TA2q |-> 1000, TAS2q |-> 1000, F2 |-> 4322, rs2 |-> 12, pos |-> {}, neg |-> {}]
 @@ <<-2094, 0, 50>> :> [TA1 |-> 1000, TA1q |-> 1000, TAS1q |-> 1000, F1 |-> 4580, rs1 |-> 137, TA2 |-> 1000, TA2q |-> 1000, TAS2q |-> 1000, F2 |-> 4322, rs2 |-> 14, pos |-> {}, neg |-> {}]
 @@ <<-2094, 10, -10>> :> [TA1 |-> 708, TA1q |-> 917, TAS1q |-> 924, F1 |-> 3646, rs1 |-> 153, TA2 |-> 579, TA2q |-> 872, TAS2q |-> 892, F2 |-> 3039, rs2 |-> 21, pos |-> {}, neg |-> {}]
 @@ <<-2094, 10, 0>> :> [TA1 |-> 819, TA1q |-> 951, TAS1q |-> 955, F1 |-> 3995, rs1 |-> 158, TA2 |-> 819, TA2q |-> 951, TAS2q |-> 959, F2 |-> 3760, rs2 |-> 23, pos |-> {}, neg |-> {}]
 @@ <<-2094, 10, 13>> :> [TA1 |-> 817, TA1q |-> 951, TAS1q |-> 955, F1 |-> 3990, rs1 |-> 157, TA2 |-> 916, TA2q |-> 978, TAS2q |-> 982, F2 |-> 4060, rs2 |-> 24, pos |-> {}, neg |-> {}]
 @@ <<-2094, 10, 25>> :> [TA1 |-> 795, TA1q |-> 944, TAS1q |-> 948, F1 |-> 3920, rs1 |-> 154, TA2 |-> 954, TA2q |-> 988, TAS2q |-> 990, F2 |-> 4179, rs2 |-> 25, pos |-> {}, neg |-> {}]
 @@ <<-2094, 10, 50>> :> [TA1 |-> 606, TA1q |-> 882, TAS1q |-> 891, F1 |-> 3328, rs1 |-> 149, TA2 |-> 991, TA2q |-> 998, TAS2q |-> 998, F2 |-> 4294, rs2 |-> 87, pos |-> {}, neg |-> {}]
 @@ <<-2094, 500, -10>> :> [TA1 |-> 30, TA1q |-> 415, TAS1q |-> 445, F1 |-> 992, rs1 |-> 240, TA2 |-> 10, TA2q |-> 317, TAS2q |-> 381, F2 |-> 598, rs2 |-> 62, pos |-> {}, neg |-> {}]
 @@ <<-2094, 500, 0>> :> [TA1 |-> 111, TA1q |-> 577, TAS1q |-> 603, F1 |-> 1554, rs1 |-> 284, TA2 |-> 111, TA2q |-> 577, TAS2q |-> 630, F2 |-> 1410, rs2 |-> 104, pos |-> {}, neg |-> {}]
 @@ <<-2094, 500, 13>> :> [TA1 |-> 12, TA1q |-> 333, TAS1q |-> 363, F1 |-> 756, rs1 |-> 318, TA2 |-> 159, TA2q |-> 631, TAS2q |-> 680, F2 |-> 1632, rs2 |-> 161, pos |-> {}, neg |-> {}]
 @@ <<-2094, 500, 25>> :> [TA1 |-> 1, TA1q |-> 177, TAS1q |-> 203, F1 |-> 348, rs1 |-> 346, TA2 |-> 208, TA2q |-> 675, TAS2q |-> 719, F2 |-> 1828, rs2 |-> 220, pos |-> {}, neg |-> {}]
 @@ <<-2094, 500, 50>> :> [TA1 |-> 0, TA1q |-> 0, TAS1q |-> 0, F1 |-> -617, rs1 |-> 346, TA2 |-> 713, TA2q |-> 919, TAS2q |-> 931, F2 |-> 3441, rs2 |-> 965, pos |-> {}, neg |-> {}]

\* signs of the scattering sums of lines 225 and 235 at
\* <<zenith_angle, pressure, AOD550, Angstrom_exponent>>, wherever they are
\* not both positive
ScatterSignTable ==
    <<0, 200, 500, 50>> :> [s1 |-> -1, s2 |-> 1]
 @@ <<0, 300, 500, 50>> :> [s1 |-> -1, s2 |-> 1]
 @@ <<0, 1013, 500, 50>> :> [s1 |-> -1, s2 |-> 1]
 @@ <<0, 1100, 500, 50>> :> [s1 |-> -1, s2 |-> 1]
 @@ <<0, 1200, 500, 50>> :> [s1 |-> -1, s2 |-> 1]
 @@ <<1047, 200, 500, 50>> :> [s1 |-> -1, s2 |-> 1]
 @@ <<1047, 300, 500, 50>> :> [s1 |-> -1, s2 |-> 1]
 @@ <<1047, 1013, 500, 50>> :> [s1 |-> -1, s2 |-> 1]
 @@ <<1047, 1100, 500, 50>> :> [s1 |-> -1, s2 |-> 1]
 @@ <<1047, 1200, 500, 50>> :> [s1 |-> -1, s2 |-> 1]
 @@ <<2618, 200, 10, -10>> :> [s1 |-> -1, s2 |-> -1]
 @@ <<2618, 200, 10, 0>> :> [s1 |-> -1, s2 |-> -1]
 @@ <<2618, 200, 10, 13>> :> [s1 |-> -1, s2 |-> -1]
 @@ <<2618, 200, 10, 25>> :> [s1 |-> -1, s2 |-> -1]
 @@ <<2618, 200, 10, 50>> :> [s1 |-> -1, s2 |-> -1]
 @@ <<2618, 200, 500, -10>> :> [s1 |-> -1, s2 |-> -1]
 @@ <<2618, 200, 500, 0>> :> [s1 |-> -1, s2 |-> -1]
 @@ <<2618, 200, 500, 13>> :> [s1 |-> -1, s2 |-> -1]
 @@ <<2618, 200, 500, 25>> :> [s1 |-> -1, s2 |-> -1]
 @@ <<2618, 200, 500, 50>> :> [s1 |-> 1, s2 |-> -1]
 @@ <<2618, 300, 10, -10>> :> [s1 |-> -1, s2 |-> -1]
 @@ <<2618, 300, 10, 0>> :> [s1 |-> -1, s2 |-> -1]
 @@ <<2618, 300, 10, 13>> :> [s1 |-> -1, s2 |-> -1]
 @@ <<2618, 300, 10, 25>> :> [s1 |-> -1, s2 |-> -1]
 @@ <<2618, 300, 10, 50>> :> [s1 |-> -1, s2 |-> -1]
 @@ <<2618, 300, 500, -10>> :> [s1 |-> -1, s2 |-> -1]
 @@ <<2618, 300, 500, 0>> :> [s1 |-> -1, s2 |-> -1]
 @@ <<2618, 300, 500, 13>> :> [s1 |-> -1, s2 |-> -1]
 @@ <<2618, 300, 500, 25>> :> [s1 |-> -1, s2 |-> -1]
 @@ <<2618, 300, 500, 50>> :> [s1 |-> 1, s2 |-> -1]
 @@ <<2618, 1013, 10, -10>> :> [s1 |-> -1, s2 |-> -1]
 @@ <<2618, 1013, 10, 0>> :> [s1 |-> -1, s2 |-> -1]
 @@ <<2618, 1013, 10, 13>> :> [s1 |-> -1, s2 |-> -1]
 @@ <<2618, 1013, 10, 25>> :> [s1 |-> -1, s2 |-> -1]
 @@ <<2618, 1013, 10, 50>> :> [s1 |-> -1, s2 |-> -1]
 @@ <<2618, 1013, 500, -10>> :> [s1 |-> -1, s2 |-> -1]
 @@ <<2618, 1013, 500, 0>> :> [s1 |-> -1, s2 |-> -1]
 @@ <<2618, 1013, 500, 13>> :> [s1 |-> -1, s2 |-> -1]
 @@ <<2618, 1013, 500, 25>> :> [s1 |-> -1, s2 |-> -1]
 @@ <<2618, 1013, 500, 50>> :> [s1 |-> 1, s2 |-> -1]
 @@ <<2618, 1100, 10, -10>> :> [s1 |-> -1, s2 |-> -1]
 @@ <<2618, 1100, 10, 0>> :> [s1 |-> -1, s2 |-> -1]
 @@ <<2618, 1100, 10, 13>> :> [s1 |-> -1, s2 |-> -1]
 @@ <<2618, 1100, 10, 25>> :> [s1 |-> -1, s2 |-> -1]
 @@ <<2618, 1100, 10, 50>> :> [s1 |-> -1, s2 |-> 1]
 @@ <<2618, 1100, 500, -10>> :> [s1 |-> -1, s2 |-> -1]
 @@ <<2618, 1100, 500, 0>> :> [s1 |-> -1, s2 |-> -1]
 @@ <<2618, 1100, 500, 13>> :> [s1 |-> -1, s2 |-> -1]
 @@ <<2618, 1100, 500, 25>> :> [s1 |-> -1, s2 |-> -1]
 @@ <<2618, 1100, 500, 50>> :> [s1 |-> 1, s2 |-> -1]
 @@ <<2618, 1200, 10, -10>> :> [s1 |-> -1, s2 |-> -1]
 @@ <<2618, 1200, 10, 0>> :> [s1 |-> -1, s2 |-> -1]
 @@ <<2618, 1200, 10, 13>> :> [s1 |-> -1, s2 |-> -1]
 @@ <<2618, 1200, 10, 25>> :> [s1 |-> -1, s2 |-> -1]
 @@ <<2618, 1200, 10, 50>> :> [s1 |-> -1, s2 |-> 1]
 @@ <<2618, 1200, 500, -10>> :> [s1 |-> -1, s2 |-> -1]
 @@ <<2618, 1200, 500, 0>> :> [s1 |-> -1, s2 |-> -1]
 @@ <<2618, 1200, 500, 13>> :> [s1 |-> -1, s2 |-> -1]
 @@ <<2618, 1200, 500, 25>> :> [s1 |-> -1, s2 |-> -1]
 @@ <<2618, 1200, 500, 50>> :> [s1 |-> 1, s2 |-> -1]
 @@ <<-2094, 200, 10, -10>> :> [s1 |-> -1, s2 |-> -1]
 @@ <<-2094, 200, 10, 0>> :> [s1 |-> -1, s2 |-> -1]
 @@ <<-2094, 200, 10, 13>> :> [s1 |-> -1, s2 |-> -1]
 @@ <<-2094, 200, 10, 25>> :> [s1 |-> -1, s2 |-> -1]
 @@ <<-2094, 200, 10, 50>> :> [s1 |-> -1, s2 |-> 1]
 @@ <<-2094, 200, 500, -10>> :> [s1 |-> -1, s2 |-> -1]
 @@ <<-2094, 200, 500, 0>> :> [s1 |-> -1, s2 |-> -1]
 @@ <<-2094, 200, 500, 13>> :> [s1 |-> -1, s2 |-> -1]
 @@ <<-2094, 200, 500, 25>> :> [s1 |-> -1, s2 |-> -1]
 @@ <<-2094, 200, 500, 50>> :> [s1 |-> 1, s2 |-> -1]
 @@ <<-2094, 300, 10, -10>> :> [s1 |-> -1, s2 |-> -1]
 @@ <<-2094, 300, 10, 0>> :> [s1 |-> 1, s2 |-> -1]
 @@ <<-2094, 300, 10, 13>> :> [s1 |-> 1, s2 |-> -1]
 @@ <<-2094, 300, 10, 25>> :> [s1 |-> 1, s2 |-> -1]
 @@ <<-2094, 300, 10, 50>> :> [s1 |-> -1, s2 |-> 1]
 @@ <<-2094, 300, 500, -10>> :> [s1 |-> -1, s2 |-> -1]
 @@ <<-2094, 300, 500, 0>> :> [s1 |-> -1, s2 |-> -1]
 @@ <<-2094, 300, 500, 13>> :> [s1 |-> -1, s2 |-> -1]
 @@ <<-2094, 300, 500, 25>> :> [s1 |-> -1, s2 |-> -1]
 @@ <<-2094, 300, 500, 50>> :> [s1 |-> 1, s2 |-> -1]
 @@ <<-2094, 1013, 10, -10>> :> [s1 |-> 1, s2 |-> -1]
 @@ <<-2094, 1013, 10, 0>> :> [s1 |-> 1, s2 |-> -1]
 @@ <<-2094, 1013, 10, 13>> :> [s1 |-> 1, s2 |-> -1]
 @@ <<-2094, 1013, 500, -10>> :> [s1 |-> -1, s2 |-> -1]
 @@ <<-2094, 1013, 500, 0>> :> [s1 |-> -1, s2 |-> -1]
 @@ <<-2094, 1013, 500, 13>> :> [s1 |-> -1, s2 |-> -1]
 @@ <<-2094, 1013, 500, 25>> :> [s1 |-> -1, s2 |-> -1]
 @@ <<-2094, 1013, 500, 50>> :> [s1 |-> 1, s2 |-> -1]
 @@ <<-2094, 1100, 10, -10>> :> [s1 |-> 1, s2 |-> -1]
 @@ <<-2094, 1100, 10, 0>> :> [s1 |-> 1, s2 |-> -1]
 @@ <<-2094, 1100, 10, 13>> :> [s1 |-> 1, s2 |-> -1]
 @@ <<-2094, 1100, 500, -10>> :> [s1 |-> -1, s2 |-> -1]
 @@ <<-2094, 1100, 500, 0>> :> [s1 |-> -1, s2 |-> -1]
 @@ <<-2094, 1100, 500, 13>> :> [s1 |-> -1, s2 |-> -1]
 @@ <<-2094, 1100, 500, 25>> :> [s1 |-> -1, s2 |-> -1]
 @@ <<-2094, 1100, 500, 50>> :> [s1 |-> 1, s2 |-> -1]
 @@ <<-2094, 1200, 10, -10>> :> [s1 |-> 1, s2 |-> -1]
 @@ <<-2094, 1200, 10, 0>> :> [s1 |-> 1, s2 |-> -1]
 @@ <<-2094, 1200, 10, 13>> :> [s1 |-> 1, s2 |-> -1]
 @@ <<-2094, 1200, 500, -10>> :> [s1 |-> -1, s2 |-> -1]
 @@ <<-2094, 1200, 500, 0>> :> [s1 |-> -1, s2 |-> -1]
 @@ <<-2094, 1200, 500, 13>> :> [s1 |-> -1, s2 |-> -1]
 @@ <<-2094, 1200, 500, 25>> :> [s1 |-> -1, s2 |-> -1]
 @@ <<-2094, 1200, 500, 50>> :> [s1 |-> 1, s2 |-> -1]

\* a tabulated value with its sign: where a non-zero float rounds to 0 the
\* table names it under pos or neg
Factor(rec, f) ==
    [v |-> rec[f],
     s |-> IF rec[f] # 0 THEN Sign(rec[f])
           ELSE IF f \in rec.pos THEN 1 ELSE IF f \in rec.neg THEN -1 ELSE 0]

\* np.cos(zenith_angle)
CosZenith(a) == Factor(GeometryTable[a.zenith_angle], "cz")
Ba(a)  == GeometryTable[a.zenith_angle].Ba
BR1(a) == GeometryTable[a.zenith_angle].BR1
\* BR2 = 0.5
BR2 == S \div 2

Rayleigh(a) == RayleighTable[<<a.zenith_angle, a.pressure>>]
TR1(a) == Factor(Rayleigh(a), "TR1")
Tg1(a) == Factor(Rayleigh(a), "Tg1")
TR2(a) == Factor(Rayleigh(a), "TR2")
Tg2(a) == Factor(Rayleigh(a), "Tg2")
To1(a) == Factor(OzoneTable[<<a.zenith_angle, a.ozone>>], "To1")
Tn1(a)    == Factor(NitrogenTable[<<a.zenith_angle, a.nitrogen_dioxide>>], "Tn1")
Tn1166(a) == Factor(NitrogenTable[<<a.zenith_angle, a.nitrogen_dioxide>>], "Tn1166")
Water(a) == WaterTable[<<a.zenith_angle, a.water_vapour>>]
Tw1(a)    == Factor(Water(a), "Tw1")
Tw1166(a) == Factor(Water(a), "Tw1166")
Tw2(a)    == Factor(Water(a), "Tw2")
Tw2166(a) == Factor(Water(a), "Tw2166")
Aerosol(a) == AerosolTable[<<a.zenith_angle, a.AOD550, a.Angstrom_exponent>>]
TA1(a) == Factor(Aerosol(a), "TA1")
TA2(a) == Factor(Aerosol(a), "TA2")
rs1(a) == Factor(Aerosol(a), "rs1")
rs2(a) == Factor(Aerosol(a), "rs2")

\* the signs of the two scattering sums
ScatterSign(a) ==
    LET key == <<a.zenith_angle, a.pressure, a.AOD550, a.Angstrom_exponent>>
    IN  IF key \in DOMAIN ScatterSignTable THEN ScatterSignTable[key]
        ELSE [s1 |-> 1, s2 |-> 1]

\* rg = surface_albedo, brought from 0.1 to 1/S
rg(a) == a.surface_albedo * (S \div 10)

---------------------------------------------------------------------------
(* clear_sky_REST2V5: irradiance of the two bands (lines 218-237) *)

E0n1(a) == XScaleBy(a.Eext, 46512, 100000)
E0n2(a) == XScaleBy(a.Eext, 51951, 100000)

\* Ebn1 = E0n1 * TR1 * Tg1 * To1 * Tn1 * Tw1 * TA1
Ebn1(a) ==
    XMul(XMul(XMul(XMul(XMul(XMul(E0n1(a), TR1(a)), Tg1(a)), To1(a)), Tn1(a)),
         Tw1(a)), TA1(a))

\* BR1 * (1 - TR1) * TA1^0.25 + Ba * F1 * TR1 * (1 - TAS1^0.25)
Scatter1(a) ==
    [v |-> Mul(Mul(BR1(a), S - TR1(a).v), Aerosol(a).TA1q)
           + Mul(Mul(Mul(Ba(a), Aerosol(a).F1), TR1(a).v), S - Aerosol(a).TAS1q),
     s |-> ScatterSign(a).s1]

\* Edp1 = E0n1 * cos(z) * To1 * Tg1 * Tn1166 * Tw1166 * (...)
Edp1(a) ==
    XMul(XMul(XMul(XMul(XMul(XMul(E0n1(a), CosZenith(a)), To1(a)), Tg1(a)),
         Tn1166(a)), Tw1166(a)), Scatter1(a))

\* Edd1 = rg * rs1 * (Ebn1 * cos(z) + Edp1) / (1 - rg * rs1)
Edd1(a) ==
    LET rgrs == [v |-> Mul(rg(a), rs1(a).v), s |-> Sign(rg(a)) * rs1(a).s]
    IN  XDiv(XMul(XAdd(XMul(Ebn1(a), CosZenith(a)), Edp1(a)), rgrs), S - rgrs.v)

\* Ebn2 = E0n2 * TR2 * Tg2 * To2 * Tn2 * Tw2 * TA2, To2 = Tn2 = 1
Ebn2(a) ==
    XMul(XMul(XMul(XMul(E0n2(a), TR2(a)), Tg2(a)), Tw2(a)), TA2(a))

\* BR2 * (1 - TR2) * TA2^0.25 + Ba * F2 * TR2 * (1 - TAS2^0.25)
Scatter2(a) ==
    [v |-> Mul(Mul(BR2, S - TR2(a).v), Aerosol(a).TA2q)
           + Mul(Mul(Mul(Ba(a), Aerosol(a).F2), TR2(a).v), S - Aerosol(a).TAS2q),
     s |-> ScatterSign(a).s2]

\* Edp2 = E0n2 * cos(z) * To2 * Tg2 * Tn2166 * Tw2166 * (...), To2 = Tn2166 = 1
Edp2(a) ==
    XMul(XMul(XMul(XMul(E0n2(a), CosZenith(a)), Tg2(a)), Tw2166(a)), Scatter2(a))

\* Edd2 = rg * rs2 * (Ebn2 * cos(z) + Edp2) / (1 - rg * rs2)
Edd2(a) ==
    LET rgrs == [v |-> Mul(rg(a), rs2(a).v), s |-> Sign(rg(a)) * rs2(a).s]
    IN  XDiv(XMul(XAdd(XMul(Ebn2(a), CosZenith(a)), Edp2(a)), rgrs), S - rgrs.v)

---------------------------------------------------------------------------
(* clear_sky_REST2V5: totals, zenith correction, quality control (238-263) *)

\* np.rad2deg(zenith_angle), in 0.001 degree (pi = 355/113)
Rad2DegMilli(z) == (z * 20340) \div 355

\* a mask that only sets in beyond 180 degrees
ZenithMaskWide(a) == Rad2DegMilli(a.zenith_angle) > 180000
\* np.rad2deg(zenith_angle) > 90
ZenithMask(a) == Rad2DegMilli(a.zenith_angle) > 90000

\* Ebn1 + Ebn2
BeamSum(a) == XAdd(Ebn1(a), Ebn2(a))

\* a direct-horizontal term that leaves out band 2
EbhBand1Only(a) == IF ZenithMask(a) THEN Fin(0) ELSE XMul(Ebn1(a), CosZenith(a))
\* Ebh = (Ebn1 + Ebn2) * cos(z); Ebh[mask] = 0   (lines 240, 244)
Ebh(a) == IF ZenithMask(a) THEN Fin(0) ELSE XMul(BeamSum(a), CosZenith(a))

\* dni = Ebn1 + Ebn2; dni[mask] = 0   (lines 241, 243)
DniCorrected(a) == IF ZenithMask(a) THEN Fin(0) ELSE BeamSum(a)

\* Edp1 + Edd1 + Edp2 + Edd2   (line 247)
DiffuseSum(a) == XAdd(XAdd(XAdd(Edp1(a), Edd1(a)), Edp2(a)), Edd2(a))

\* the diffuse sum without the zenith correction of line 248
DhiUncorrected(a) == DiffuseSum(a)
\* dhi = Edp1 + Edd1 + Edp2 + Edd2; dhi[mask] = 0   (lines 247-248)
DhiCorrected(a) == IF ZenithMask(a) THEN Fin(0) ELSE DiffuseSum(a)

\* ghi = Ebh + dhi   (line 251)
GhiSum(a) == XAdd(Ebh(a), DhiCorrected(a))

\* x[x < lower] = nan; x[isnan(x)] = 0   (lines 254-261)
QualityControl(x) ==
    LET y == IF XNeg(x) THEN NaN ELSE x
    IN  IF IsNaN(y) THEN Fin(0) ELSE y

\* the values computed from the arrays as they stand after the clamps
Locals(a) ==
    [beam |-> BeamSum(a), Ebh |-> Ebh(a), diffuse |-> DiffuseSum(a),
     ghi0 |-> GhiSum(a), dni0 |-> DniCorrected(a), dhi0 |-> DhiCorrected(a)]

\* return [ghi, dni, dhi]
Returned(a) ==
    [ghi |-> QualityControl(GhiSum(a)),
     dni |-> QualityControl(DniCorrected(a)),
     dhi |-> QualityControl(DhiCorrected(a))]

\* what one call returns for arrays holding a
Rest2Element(a) == Returned(ClampAll(a))

\* warnings.filterwarnings("ignore") (line 59): the filter goes to the front
\* of warnings.filters, once
FilterWarnings(fs) ==
    <<"ignore">> \o SelectSeq(fs, LAMBDA f : f # "ignore")

---------------------------------------------------------------------------
(* clear_sky_REST2V5 called by a caller that keeps its arrays *)

ZenithValues == {0, 1047, 1571, 2618, -2094}

\* inputs that spread over zenith angle, Eext and aerosol load
ComposerInputs ==
    [zenith_angle : ZenithValues,
     Eext : {Fin(13610), Fin(-13610), PosInf, NaN},
     pressure : {200, 1013},
     water_vapour : {142},
     ozone : {34},
     nitrogen_dioxide : {2, 500},
     AOD550 : {0, 10, 500},
     Angstrom_exponent : {13, 50},
     surface_albedo : {0, 2, 15}]

\* what a caller may put in each clamped array: below the lower bound, inside,
\* on a bound, above the upper bound
RawValues(f) ==
    CASE f = "Angstrom_exponent" -> {-10, 13, 25, 50}
      [] f = "pressure"          -> {200, 300, 1013, 1200}
      [] f = "water_vapour"      -> {-100, 142, 1000, 1500}
      [] f = "ozone"             -> {-10, 34, 60, 90}
      [] f = "nitrogen_dioxide"  -> {-1, 2, 300, 500}
      [] f = "surface_albedo"    -> {-5, 2, 10, 15}

\* inputs that spread over the six clamped arrays
ClampInputs ==
    [zenith_angle : {1047},
     Eext : {Fin(13610)},
     pressure : RawValues("pressure"),
     water_vapour : RawValues("water_vapour"),
     ozone : RawValues("ozone"),
     nitrogen_dioxide : RawValues("nitrogen_dioxide"),
     AOD550 : {10},
     Angstrom_exponent : RawValues("Angstrom_exponent"),
     surface_albedo : RawValues("surface_albedo")]

NoReturn == [ghi |-> Fin(0), dni |-> Fin(0), dhi |-> Fin(0)]
NoLocals == [beam |-> Fin(0), Ebh |-> Fin(0), diffuse |-> Fin(0),
             ghi0 |-> Fin(0), dni0 |-> Fin(0), dhi0 |-> Fin(0)]

CoreIdle ==
    /\ args = [zenith_angle |-> 0, Eext |-> Fin(0), pressure |-> 1013,
               water_vapour |-> 142, ozone |-> 34, nitrogen_dioxide |-> 2,
               AOD550 |-> 10, Angstrom_exponent |-> 13, surface_albedo |-> 2]
    /\ raw0 = args
    /\ ret = NoReturn
    /\ loc = NoLocals
    /\ filters = <<"default">>
    /\ calls = 0

CtorIdle == ctor = [pc |-> "idle"]

BatchIdle ==
    /\ time = <<>>
    /\ pandas_output = FALSE
    /\ bpc = "idle"
    /\ i = 0
    /\ same_flag = 1
    /\ index = 0
    /\ branch = "none"
    /\ result = <<>>

Init ==
    /\ args \in ComposerInputs \cup ClampInputs
    /\ raw0 = args
    /\ ret = NoReturn
    /\ loc = NoLocals
    /\ filters = <<"default">>
    /\ calls = 0
    /\ CtorIdle
    /\ BatchIdle

\* one call, lines 59-263: the clamps write into the caller's arrays, the
\* rest reads them afterwards
clear_sky_REST2V5 ==
    /\ calls < MaxCalls
    /\ filters' = FilterWarnings(filters)
    /\ args' = ClampAll(args)
    /\ loc' = Locals(args')
    /\ ret' = Returned(args')
    /\ calls' = calls + 1
    /\ UNCHANGED <<raw0, ctor, time, pandas_output, bpc, i, same_flag, index, branch,
                   result>>

Next == clear_sky_REST2V5

Spec == Init /\ [][Next]_vars

---------------------------------------------------------------------------
(* Claims about clear_sky_REST2V5, checked under Spec *)

Outputs == {"ghi", "dni", "dhi"}

\* the zenith angle of the call exceeds 90 degrees (pi/2 = 1570796 microradians)
SunBelowHorizon == args.zenith_angle * 1000 > 1570796

\* the quality-control floor replaced none of the three outputs of the last call
NoFloor ==
    \A o \in {loc.ghi0, loc.dni0, loc.dhi0} : ~XNeg(o) /\ ~IsNaN(o)

\* GHI = DNI * cos(zenith) + DHI on the returned values, direct-horizontal
\* taken as 0 when the sun is below the horizon
ComposedAsReturned ==
    ret.ghi = XAdd(IF SunBelowHorizon THEN Fin(0)
                   ELSE XMul(ret.dni, CosZenith(args)), ret.dhi)

\* C1: every returned GHI, DNI and DHI is a finite number >= 0, whatever the
\* inputs (never negative, never NaN, never infinite).
C1_RangeInvariant ==
    calls > 0 => \A o \in Outputs : IsFinite(ret[o]) /\ ret[o].v >= 0

\* C2: when the zenith angle is greater than 90 degrees the returned DNI is 0
\* and the direct-horizontal term Ebh added into GHI is 0, whatever the other
\* inputs are.
C2_NightZero ==
    (calls > 0 /\ SunBelowHorizon) => (ret.dni = Fin(0) /\ loc.Ebh = Fin(0))

\* C2 witness: a call with the sun below the horizon whose beam sum
\* Ebn1 + Ebn2 was not zero, so the zenith correction is what made DNI zero.
C2_Witness ==
    /\ calls > 0
    /\ SunBelowHorizon
    /\ loc.beam # Fin(0)
    /\ ~IsNaN(loc.beam)

\* C3 as stated: the zenith rule leaves DHI alone, so with the zenith angle
\* above 90 degrees the returned DHI is the diffuse sum
\* Edp1 + Edd1 + Edp2 + Edd2 whenever that sum is non-negative.
C3_DhiUnaffectedAtNight ==
    (calls > 0 /\ SunBelowHorizon /\ ~XNeg(loc.diffuse) /\ ~IsNaN(loc.diffuse))
        => ret.dhi = loc.diffuse

\* C3 amended: the zenith rule zeroes DHI as well: with the zenith angle above
\* 90 degrees the returned DHI is 0 whatever the diffuse sum is; otherwise the
\* returned DHI is the diffuse sum when that sum is non-negative (and not NaN)
\* and 0 when the floor replaces it.
C3_DhiZeroedAtNight ==
    calls > 0 =>
        IF SunBelowHorizon THEN ret.dhi = Fin(0)
        ELSE IF XNeg(loc.diffuse) \/ IsNaN(loc.diffuse) THEN ret.dhi = Fin(0)
        ELSE ret.dhi = loc.diffuse

\* C3 witness: a call with the sun below the horizon whose diffuse sum is
\* strictly positive.
C3_Witness ==
    /\ calls > 0
    /\ SunBelowHorizon
    /\ IsFinite(loc.diffuse)
    /\ loc.diffuse.v > 0

\* C5: for each of the six clamped arrays, a value already inside its bounds
\* comes out of the clamp unchanged, and clamping the clamped value again
\* gives the same value.
C5_ClampIdempotent ==
    calls > 0 =>
        \A f \in ClampedFields :
            /\ (LowerBound(f) <= raw0[f] /\ raw0[f] <= UpperBound(f))
                   => args[f] = raw0[f]
            /\ ClampField(f, args[f]) = args[f]

\* C5 witness: the arrays went through the clamps twice, one of them started
\* outside its bounds and another inside.
C5_Witness ==
    /\ calls = 2
    /\ \E f \in ClampedFields : raw0[f] > UpperBound(f) \/ raw0[f] < LowerBound(f)
    /\ \E f \in ClampedFields : LowerBound(f) < raw0[f] /\ raw0[f] < UpperBound(f)

\* two values of array f that lie on or beyond the same bound
SameSide(f, v, w) ==
    \/ (v >= UpperBound(f) /\ w >= UpperBound(f))
    \/ (v <= LowerBound(f) /\ w <= LowerBound(f))

\* C6: only the clamped value of an atmospheric array reaches the formulas:
\* after the call every clamped array lies within its bounds, and a call that
\* differs only in one array's value lying on or beyond the same bound
\* (Angstrom exponent 5.0 versus 2.5) returns the same GHI, DNI and DHI.
C6_ClampedValueFlows ==
    calls > 0 =>
        \A f \in ClampedFields :
            /\ LowerBound(f) <= args[f] /\ args[f] <= UpperBound(f)
            /\ \A v \in RawValues(f) :
                   SameSide(f, v, raw0[f])
                       => Rest2Element([raw0 EXCEPT ![f] = v]) = ret

\* C6 witness: a call made with Angstrom exponent 5.0 that returned a
\* positive GHI.
C6_Witness ==
    /\ calls > 0
    /\ raw0.Angstrom_exponent = 50
    /\ IsFinite(ret.ghi)
    /\ ret.ghi.v > 0

\* C9: a call leaves the caller's arrays and all global state as they were.
C9_CallIsPure ==
    calls > 0 => (args = raw0 /\ filters = <<"default">>)

\* C10 as stated: after the zenith correction and the floor the returned
\* values still satisfy GHI = DNI * cos(zenith) + DHI, for every element.
C10_ComposedAlways ==
    calls > 0 => ComposedAsReturned

\* C10 amended: GHI = DNI * cos(zenith) + DHI holds on the returned values of
\* every element in which the floor replaces none of the three outputs (the
\* pre-floor GHI, DNI and DHI are all non-negative and not NaN); the floor is
\* applied to each output on its own and can break the rule.
C10_ComposedUnlessFloored ==
    (calls > 0 /\ NoFloor) => ComposedAsReturned

\* C10 witness: a daytime call with positive DNI and DHI that the floor left
\* untouched.
C10_Witness ==
    /\ calls > 0
    /\ ~SunBelowHorizon
    /\ NoFloor
    /\ IsFinite(ret.dni) /\ ret.dni.v > 0
    /\ IsFinite(ret.dhi) /\ ret.dhi.v > 0

---------------------------------------------------------------------------
(* ClearSkyREST2v5.__init__ (lines 10-24) *)

\* latitudes and longitudes a caller may pass, in degrees
LatValues == {Fin(-95), Fin(-90), Fin(0), Fin(90), Fin(95), NaN}
LonValues == {Fin(-185), Fin(0), Fin(180), Fin(185), NaN}

\* numpy arrays of up to MaxCoords elements, flat (n,) or as a column (n, 1)
ArraysOf(values) ==
    UNION {[shape : {<<n>>, <<n, 1>>}, data : [1..n -> values]] : n \in 0..MaxCoords}

\* np.abs(x)
XAbs(x) == IF IsNaN(x) THEN NaN ELSE IF IsInf(x) THEN PosInf ELSE Fin(Abs(x.v))

\* x > y, as numpy compares (False when either is NaN)
XGreater(x, y) ==
    /\ ~IsNaN(x) /\ ~IsNaN(y)
    /\ \/ (IsInf(x) /\ x.v > 0 /\ y # PosInf)
       \/ (IsInf(y) /\ y.v < 0 /\ x # NegInf)
       \/ (IsFinite(x) /\ IsFinite(y) /\ x.v > y.v)

\* np.max(np.abs(a)) of a non-empty array: NaN as soon as one element is NaN
MaxAbs(data) ==
    IF \E k \in DOMAIN data : IsNaN(data[k]) THEN NaN
    ELSE LET m == CHOOSE k \in DOMAIN data :
                      \A j \in DOMAIN data : ~XGreater(XAbs(data[j]), XAbs(data[k]))
         IN  XAbs(data[m])

\* the outcome of __init__(lat, lon, elev, ...): the checks of lines 11-16 in
\* their order, then the assignments of lines 18-24
InitOutcome(lat, lon, elev) ==
    IF lat.shape # lon.shape
        THEN [pc |-> "failed", error |-> "lat and lon not match...", self |-> {}]
    ELSE IF Len(lat.data) = 0
        THEN [pc |-> "failed", error |-> "ValueError: zero-size array", self |-> {}]
    ELSE IF XGreater(MaxAbs(lat.data), Fin(90))
        THEN [pc |-> "failed", error |-> "90<= lattitude <=90, reset your latitude",
              self |-> {}]
    ELSE IF XGreater(MaxAbs(lon.data), Fin(180))
        THEN [pc |-> "failed", error |-> "-180<= lontitude <=180, reset your lontitude",
              self |-> {}]
    ELSE IF elev # Len(lat.data)
        THEN [pc |-> "failed", error |-> "ValueError: cannot reshape array",
              self |-> {"lat", "lon"}]
    ELSE [pc |-> "constructed", error |-> "none",
          self |-> {"lat", "lon", "elev", "time", "datadir", "pandas_output"}]

InitCtor ==
    /\ ctor \in [pc : {"new"}, error : {"none"}, self : {{}},
                 lat : ArraysOf(LatValues), lon : ArraysOf(LonValues),
                 elev : 1..MaxCoords]
    /\ CoreIdle
    /\ BatchIdle

\* ClearSkyREST2v5(lat, lon, elev, time, datadir, pandas)
ClearSkyREST2v5_init ==
    /\ ctor.pc = "new"
    /\ LET out == InitOutcome(ctor.lat, ctor.lon, ctor.elev)
       IN  ctor' = [ctor EXCEPT !.pc = out.pc, !.error = out.error, !.self = out.self]
    /\ UNCHANGED <<args, raw0, ret, loc, filters, calls,
                   time, pandas_output, bpc, i, same_flag, index, branch, result>>

NextCtor == ClearSkyREST2v5_init

SpecInit == InitCtor /\ [][NextCtor]_vars

\* C7: construction fails whenever lat and lon differ in shape, or some
\* |latitude| > 90, or some |longitude| > 180; it fails before any attribute
\* is set, and the shape is checked before the ranges.
C7_InvalidCoordinatesRejected ==
    ctor.pc \in {"constructed", "failed"} =>
        LET shapeBad == ctor.lat.shape # ctor.lon.shape
            latBad == \E k \in DOMAIN ctor.lat.data :
                          XGreater(XAbs(ctor.lat.data[k]), Fin(90))
            lonBad == \E k \in DOMAIN ctor.lon.data :
                          XGreater(XAbs(ctor.lon.data[k]), Fin(180))
        IN  /\ (shapeBad \/ latBad \/ lonBad) => (ctor.pc = "failed" /\ ctor.self = {})
            /\ shapeBad => ctor.error = "lat and lon not match..."

---------------------------------------------------------------------------
(* ClearSkyREST2v5.REST2v5 (lines 266-347) *)

TimeValues == {1, 2, 3}

\* the time grids a site may have: increasing timestamps, up to MaxTimes long
TimeGrids ==
    {g \in UNION {[1..n -> TimeValues] : n \in 1..MaxTimes} :
        \A k \in 1..(Len(g) - 1) : g[k] < g[k + 1]}

\* solarGeometry.latlon2solarzenith for a site and a timestamp, in degrees
latlon2solarzenith(s, t) ==
    LET d == <<0, 60, 150>> IN d[((s + t) % 3) + 1]

\* solarGeometry.data_eext_builder for a timestamp
data_eext_builder(t) == Fin(13610 - 100 * t)

\* extractor.extract_for_MERRA2 for a site and a timestamp
extract_for_MERRA2(s, t) ==
    LET p == <<1013, 200, 1200>>
        al == <<13, 50, 25>>
        w == <<142, 1500, -100>>
    IN  [pressure |-> p[(s % 3) + 1], water_vapour |-> w[(t % 3) + 1],
         ozone |-> 34, nitrogen_dioxide |-> 2, AOD550 |-> 10,
         Angstrom_exponent |-> al[((s + t) % 3) + 1], surface_albedo |-> 2 * s]

\* np.deg2rad(zenith_angle), in 0.001 rad (pi = 355/113)
Deg2RadMilli(d) == RoundDiv(d * 355000, 20340)

\* the element of the arrays handed to clear_sky_REST2V5 for site s, time t
ElementArgs(s, t) ==
    LET m == extract_for_MERRA2(s, t)
    IN  [zenith_angle |-> Deg2RadMilli(latlon2solarzenith(s, t)),
         Eext |-> data_eext_builder(t),
         pressure |-> m.pressure, water_vapour |-> m.water_vapour,
         ozone |-> m.ozone, nitrogen_dioxide |-> m.nitrogen_dioxide,
         AOD550 |-> m.AOD550, Angstrom_exponent |-> m.Angstrom_exponent,
         surface_albedo |-> m.surface_albedo]

\* a loop body that overwrites the flag with the outcome of each comparison
ScanStepOverwrite(flag, g, g0) ==
    IF Len(g) = Len(g0) /\ \A k \in 1..Len(g) : g[k] = g0[k] THEN 1 ELSE 0
\* one pass of the loop of lines 283-288 over grid g, first grid g0
ScanStep(flag, g, g0) ==
    IF Len(g) = Len(g0)
    THEN (IF \E k \in 1..Len(g) : g[k] # g0[k] THEN 0 ELSE flag)
    ELSE 0

\* ghi[:, index] of a (time x site) array of returned elements
Column(arr, s, o) == [t \in 1..Len(arr) |-> arr[t][s][o]]

\* one call of clear_sky_REST2V5 on 2-D arrays, every statement of which is
\* element-wise: the arrays after the clamps, the values before quality
\* control and the returned values, each as an array of elements
CallArgs(arr) ==
    [r \in DOMAIN arr |-> [c \in DOMAIN arr[r] |-> ClampAll(arr[r][c])]]
CallLocals(clamped) ==
    [r \in DOMAIN clamped |-> [c \in DOMAIN clamped[r] |-> Locals(clamped[r][c])]]
CallReturned(clamped) ==
    [r \in DOMAIN clamped |-> [c \in DOMAIN clamped[r] |-> Returned(clamped[r][c])]]

\* lines 291-296: the (time x site) arrays built from self.time.T
HomogeneousArgs(tm) ==
    LET timeT == [t \in 1..Len(tm[1]) |-> [s \in 1..Len(tm) |-> tm[s][t]]]
    IN  [t \in 1..Len(timeT) |->
            [s \in 1..Len(timeT[t]) |-> ElementArgs(s, timeT[t][s])]]

\* a numpy array with its shape, and a Python list
NdArray(shape, data) == [shape |-> shape, data |-> data]
PyList(items) == [items |-> items]

\* lines 299-315: the (time x site) array out of the batched call, arranged
\* per site: a list of tables, or [ghi.T, dni.T, dhi.T], three (site x time)
\* arrays
HomogeneousResult(out, tm, pandas) ==
    LET N == Len(tm)
        T == Len(tm[1])
    IN  IF pandas
        THEN [s \in 1..N |->
                 [index |-> tm[s],
                  rows |-> [t \in 1..T |-> <<Column(out, s, "ghi")[t],
                                             Column(out, s, "dni")[t],
                                             Column(out, s, "dhi")[t]>>]]]
        ELSE <<NdArray(<<N, T>>, [s \in 1..N |-> Column(out, s, "ghi")]),
               NdArray(<<N, T>>, [s \in 1..N |-> Column(out, s, "dni")]),
               NdArray(<<N, T>>, [s \in 1..N |-> Column(out, s, "dhi")])>>

\* lines 325-332: the (time x 1) arrays of site s
SiteArgs(tm, s) == [t \in 1..Len(tm[s]) |-> <<ElementArgs(s, tm[s][t])>>]

\* line 338: pd.DataFrame(np.hstack((ghi_i, dni_i, dhi_i)), index=row_index)
SiteFrame(out, grid) ==
    [index |-> grid,
     rows |-> [t \in 1..Len(out) |-> <<out[t][1].ghi, out[t][1].dni, out[t][1].dhi>>]]

\* ghi_i, dni_i or dhi_i: one (time x 1) array out of a site's call
SiteColumn(out, o) ==
    NdArray(<<Len(out), 1>>, [t \in 1..Len(out) |-> <<out[t][1][o]>>])

\* lines 318-322: the empty lists the per-site loop starts from
NoSites(pandas) ==
    IF pandas THEN <<>> ELSE <<PyList(<<>>), PyList(<<>>), PyList(<<>>)>>

\* lines 337-343: a site's output appended to the lists
AppendSite(lists, out, grid, pandas) ==
    IF pandas THEN Append(lists, SiteFrame(out, grid))
    ELSE <<PyList(Append(lists[1].items, SiteColumn(out, "ghi"))),
           PyList(Append(lists[2].items, SiteColumn(out, "dni"))),
           PyList(Append(lists[3].items, SiteColumn(out, "dhi")))>>

\* lines 318-347: what the per-site loop returns for time grids tm
RECURSIVE PerSiteLists(_, _, _)
PerSiteLists(tm, pandas, n) ==
    IF n = 0 THEN NoSites(pandas)
    ELSE AppendSite(PerSiteLists(tm, pandas, n - 1),
                    CallReturned(CallArgs(SiteArgs(tm, n))), tm[n], pandas)
PerSiteResult(tm, pandas) == PerSiteLists(tm, pandas, Len(tm))

InitBatch ==
    /\ time \in UNION {[1..n -> TimeGrids] : n \in 1..MaxSites}
    /\ pandas_output \in BOOLEAN
    /\ bpc = "scan"
    /\ i = 0
    /\ same_flag = 1
    /\ index = 0
    /\ branch = "none"
    /\ result = <<>>
    /\ CoreIdle
    /\ CtorIdle

\* one iteration of "for i in range(len(self.time) - 1)" (lines 283-288)
REST2v5_scan ==
    /\ bpc = "scan"
    /\ i < Len(time) - 1
    /\ same_flag' = ScanStep(same_flag, time[i + 2], time[1])
    /\ i' = i + 1
    /\ UNCHANGED <<time, pandas_output, bpc, index, branch, result,
                   args, raw0, ret, loc, filters, calls, ctor>>

\* "if same_flag == 1:" (lines 290-315): one call of clear_sky_REST2V5 on the
\* (time x site) arrays, then the return
REST2v5_homogeneous ==
    /\ bpc = "scan"
    /\ i >= Len(time) - 1
    /\ same_flag = 1
    /\ branch' = "homogeneous"
    /\ raw0' = HomogeneousArgs(time)
    /\ args' = CallArgs(raw0')
    /\ loc' = CallLocals(args')
    /\ ret' = CallReturned(args')
    /\ filters' = FilterWarnings(filters)
    /\ calls' = calls + 1
    /\ result' = HomogeneousResult(ret', time, pandas_output)
    /\ bpc' = "done"
    /\ UNCHANGED <<time, pandas_output, i, same_flag, index, ctor>>

\* "else:" (lines 317-347): one iteration of "for index in
\* range(len(self.time))", a call of clear_sky_REST2V5 on the arrays of one
\* site; the first iteration starts from the empty lists, the last one is
\* followed by the return
REST2v5_per_site ==
    /\ \/ (bpc = "scan" /\ i >= Len(time) - 1 /\ same_flag # 1)
       \/ bpc = "sites"
    /\ index < Len(time)
    /\ branch' = "per_site"
    /\ raw0' = SiteArgs(time, index + 1)
    /\ args' = CallArgs(raw0')
    /\ loc' = CallLocals(args')
    /\ ret' = CallReturned(args')
    /\ filters' = FilterWarnings(filters)
    /\ calls' = calls + 1
    /\ result' = AppendSite(IF bpc = "scan" THEN NoSites(pandas_output) ELSE result,
                            ret', time[index + 1], pandas_output)
    /\ index' = index + 1
    /\ bpc' = IF index + 1 = Len(time) THEN "done" ELSE "sites"
    /\ UNCHANGED <<time, pandas_output, i, same_flag, ctor>>

NextBatch ==
    \/ REST2v5_scan
    \/ REST2v5_homogeneous
    \/ REST2v5_per_site

SpecBatch == InitBatch /\ [][NextBatch]_vars

\* C4: when all sites have the identical time grid, what the homogeneous
\* branch returns is what the per-site branch returns for the same sites: the
\* same (GHI, DNI, DHI) value for each (site, time) pair, delivered in the
\* same per-site, per-time arrangement.
C4_BatchEquivalence ==
    (bpc = "done" /\ branch = "homogeneous") =>
        result = PerSiteResult(time, pandas_output)

\* C8: the branch is chosen once, from the scan: same_flag is 1 exactly while
\* every grid examined so far equals the first site's grid, so a later match
\* never undoes a mismatch, and the homogeneous branch runs if and only if
\* every site's grid equals the first one (a single site included).
C8_BranchChoice ==
    /\ bpc \in {"scan", "sites", "done"} =>
           ((same_flag = 1) <=> \A s \in 1..(i + 1) : time[s] = time[1])
    /\ bpc = "sites" => (branch = "per_site" /\ i = Len(time) - 1 /\ same_flag = 0)
    /\ bpc = "done" =>
           /\ branch = (IF \A s \in 1..Len(time) : time[s] = time[1]
                        THEN "homogeneous" ELSE "per_site")
           /\ i = Len(time) - 1

\* C8 witness: three sites, the second differs from the first, the third
\* equals it, and the per-site branch ran.
C8_Witness ==
    /\ bpc = "done"
    /\ Len(time) = 3
    /\ time[2] # time[1]
    /\ time[3] = time[1]
    /\ branch = "per_site"

=============================================================================
